---- MODULE Spec2Model ----
(***************************************************************************)
(* Location-analysis nodes of the KNIME geospatial extension               *)
(* (knime_extension/src/nodes/locationanalysis.py).                        *)
(*                                                                         *)
(* One node execution is modelled as a run through the phases              *)
(*   start -> built -> formulated -> solved -> done | error                *)
(* The external MILP backend (pulp's default solver) is a black box that   *)
(* returns SOME optimal solution of the model it is handed, or the status  *)
(* Infeasible when the constraint set has no solution.                     *)
(***************************************************************************)
EXTENDS Integers, Sequences, FiniteSets, TLC

VARIABLES
    node,    \* the node whose execute() runs
    pc,      \* phase reached: start, built, formulated, solved, done, error
    inp,     \* the input tables and the node's parameters
    built,   \* the tables execute() derives before formulating
    prob,    \* the formulated problem
    sol,     \* status and variable values after prob.solve()
    out      \* the output table

vars == <<node, pc, inp, built, prob, sol, out>>

(***************************************************************************)
(* Bounds of the explored inputs.                                          *)
(***************************************************************************)
MaxCost == 2        \* travel costs are drawn from 1..MaxCost
MaxWeight == 1      \* demand weights are drawn from 0..MaxWeight
MaxCalls == 3       \* calls made on one Distance object

\* (demand count, candidate count) of the explored tables of each node; the
\* nodes with one variable per (demand, candidate) pair get the small shape
ShapesOf(nd) ==
    CASE nd = "LSCP" -> {<<2, 2>>, <<3, 3>>}
      [] nd = "MCLP" -> {<<2, 2>>, <<2, 3>>}
      [] nd = "PcenterSolver" -> {<<2, 2>>, <<2, 3>>}
      [] OTHER -> {<<2, 2>>}

\* Python's None: for a number, for a column of values, for a column name
None == 0 - 1
NoneCol == <<>>
NoneId == "None"

ListNodes == {"Pmedian", "LSCP", "MCLP"}
MatrixNodes == {"PcenterSolver", "PmedianSolver", "MCLPSolver"}

(***************************************************************************)
(* Helpers                                                                 *)
(***************************************************************************)
RECURSIVE SumF(_, _)
SumF(f, S) ==
    IF S = {} THEN 0
    ELSE LET k == CHOOSE k \in S : TRUE IN f[k] + SumF(f, S \ {k})

\* pulp.lpSum of the terms f[k], k in DOMAIN f, evaluated at a solution
lpSum(f) == SumF(f, DOMAIN f)

SetMin(S) == CHOOSE v \in S : \A w \in S : v <= w
SetMax(S) == CHOOSE v \in S : \A w \in S : w <= v

\* range(n)
range(n) == 0 .. (n - 1)

(***************************************************************************)
(* List mode: the OD list, its sort and the rebuilt point tables           *)
(***************************************************************************)
\* a row of the OD list: (DemandID, SupplyID, DemandPopu, ODcost)
Row(d, s, w, c) == [DemandID |-> d, SupplyID |-> s, DemandPopu |-> w, ODcost |-> c]

RowLE(r1, r2) ==
    \/ r1.DemandID < r2.DemandID
    \/ r1.DemandID = r2.DemandID /\ r1.SupplyID <= r2.SupplyID

\* insert row r into the sorted sequence s after every row that is <= r (stable)
RECURSIVE InsertSorted(_, _)
InsertSorted(r, s) ==
    IF s = <<>> THEN <<r>>
    ELSE IF RowLE(Head(s), r) THEN <<Head(s)>> \o InsertSorted(r, Tail(s))
    ELSE <<r>> \o s

\* mutant: the frame is left in the order of the input
sort_values_Unsorted(df) == df

\* df.sort_values(by=[DemandID, SupplyID]).reset_index(drop=True)
RECURSIVE sort_values(_)
sort_values(df) ==
    IF df = <<>> THEN <<>>
    ELSE InsertSorted(df[Len(df)], sort_values(SubSeq(df, 1, Len(df) - 1)))

\* ascending sequence of the elements of a finite set of integers
RECURSIVE Ascending(_)
Ascending(S) ==
    IF S = {} THEN <<>>
    ELSE LET v == SetMin(S) IN <<v>> \o Ascending(S \ {v})

\* GroupBy.first() on the column DemandPopu: the first value of the group that
\* is not missing, and missing (None) when the group has no value at all
first(df, id) ==
    LET valid == {k \in 1..Len(df) : df[k].DemandID = id /\ df[k].DemandPopu # None}
    IN IF valid = {} THEN None ELSE df[SetMin(valid)].DemandPopu

\* df[[DemandID, DemandPopu, geometry]].groupby([DemandID]).first().reset_index()
DemandPtOf(df) ==
    LET ids == Ascending({df[k].DemandID : k \in 1..Len(df)}) IN
    [p \in range(Len(ids)) |->
        [DemandID |-> ids[p + 1], DemandPopu |-> first(df, ids[p + 1])]]

\* df[[SupplyID, geometry]].groupby([SupplyID]).first().reset_index()
SupplyPtOf(df) ==
    LET ids == Ascending({df[k].SupplyID : k \in 1..Len(df)}) IN
    [p \in range(Len(ids)) |-> [SupplyID |-> ids[p + 1]]]

\* mutant: i and j are taken for the ranks of the ids, not for the ids
Matching_ByRank(df, i, j) ==
    LET DRank(id) == Cardinality({v \in {df[l].DemandID : l \in 1..Len(df)} : v < id})
        SRank(id) == Cardinality({v \in {df[l].SupplyID : l \in 1..Len(df)} : v < id})
    IN {k \in 1..Len(df) : DRank(df[k].DemandID) = i /\ SRank(df[k].SupplyID) = j}

\* mutant: the rows are matched on the demand id alone
Matching_DemandOnly(df, i, j) == {k \in 1..Len(df) : df[k].DemandID = i}

\* df[(df[DemandID] == i) & (df[SupplyID] == j)]: the indices of the matching rows
Matching(df, i, j) == {k \in 1..Len(df) : df[k].DemandID = i /\ df[k].SupplyID = j}

\* mutant: the cost of the last matching row
CostAt_Last(df, i, j) == df[SetMax(Matching(df, i, j))].ODcost

\* df[(df[DemandID] == i) & (df[SupplyID] == j)][ODcost].values[0]
CostAt(df, i, j) == df[SetMin(Matching(df, i, j))].ODcost

\* a row of df with the column "within" set
WithinRow(r, flag) ==
    [DemandID |-> r.DemandID, SupplyID |-> r.SupplyID,
     DemandPopu |-> r.DemandPopu, ODcost |-> r.ODcost, within |-> flag]

\* mutant: the threshold is exclusive
within_Strict(df, threshold) ==
    [k \in 1..Len(df) |-> WithinRow(df[k], IF df[k].ODcost < threshold THEN 1 ELSE 0)]

\* df["within"] = 0; df.loc[(df[ODcost] <= threshold), "within"] = 1
within(df, threshold) ==
    [k \in 1..Len(df) |-> WithinRow(df[k], IF df[k].ODcost <= threshold THEN 1 ELSE 0)]

\* mutant: the flag of demand point 0 is read for every demand point
WithinAt_FirstDemand(df, i, j) == df[SetMin(Matching(df, 0, j))].within

\* df[(df[DemandID] == i) & (df[SupplyID] == j)]["within"].values[0]
WithinAt(df, i, j) == df[SetMin(Matching(df, i, j))].within

\* every (i, j) the formulation looks up has a row: .values[0] raises otherwise
AllPairsPresent(df, num_trt, num_hosp) ==
    \A i \in range(num_trt) : \A j \in range(num_hosp) : Matching(df, i, j) # {}

(***************************************************************************)
(* Matrix mode: the cost table and the required column                     *)
(***************************************************************************)
\* a table of numeric columns: its column labels and its cells, 0-based
Table(cols, nrows, cells) == [columns |-> cols, nrows |-> nrows, cells |-> cells]

\* position (0-based) of the column labelled c in table t
ColPos(t, c) == CHOOSE j \in range(Len(t.columns)) : t.columns[j + 1] = c

\* t.rename(columns={RequiredID: "Required"}); renaming None renames nothing
rename(t, RequiredID) ==
    [t EXCEPT !.columns =
        [k \in 1..Len(t.columns) |->
            IF t.columns[k] = RequiredID THEN "Required" ELSE t.columns[k]]]

\* mutant: the required column changes places with the last column
MoveRequiredLast_Swap(t) ==
    LET q == ColPos(t, "Required")
        m == Len(t.columns)
        old(j) == IF j = m - 1 THEN q ELSE IF j = q THEN m - 1 ELSE j
    IN [columns |-> [k \in 1..m |-> t.columns[old(k - 1) + 1]],
        nrows |-> t.nrows,
        cells |-> [ij \in range(t.nrows) \X range(m) |-> t.cells[<<ij[1], old(ij[2])>>]]]

\* mutant: the required column stays where it was
MoveRequiredLast_InPlace(t) == t

\* pd.concat([t.drop(columns=["Required"]), t["Required"]], axis=1)
MoveRequiredLast(t) ==
    LET q == ColPos(t, "Required")
        m == Len(t.columns)
        \* old position of the column that ends at new position j
        old(j) == IF j = m - 1 THEN q ELSE IF j < q THEN j ELSE j + 1
    IN [columns |-> [k \in 1..m |-> t.columns[old(k - 1) + 1]],
        nrows |-> t.nrows,
        cells |-> [ij \in range(t.nrows) \X range(m) |-> t.cells[<<ij[1], old(ij[2])>>]]]

\* the cell pandas fills in where a concatenated frame has no row
NaN == "NaN"

\* pd.concat([cost_matrix, last_col], axis=1): an outer join on the row index,
\* the result has the rows of the longer operand and NaN where the shorter has none
AppendRequired(t, last_col) ==
    LET m == Len(t.columns)
        n == IF Cardinality(DOMAIN last_col) > t.nrows
             THEN Cardinality(DOMAIN last_col) ELSE t.nrows
    IN [columns |-> Append(t.columns, "Required"),
        nrows |-> n,
        cells |-> [ij \in range(n) \X range(m + 1) |->
                     IF ij[2] = m
                     THEN IF ij[1] \in DOMAIN last_col THEN last_col[ij[1]] ELSE NaN
                     ELSE IF ij[1] < t.nrows THEN t.cells[ij] ELSE NaN]]

(***************************************************************************)
(* Model formulation.  A formulated problem is a record of the             *)
(* coefficients the code computes; the objective and the constraints are   *)
(* evaluated at a candidate solution s = [x, y, Z].                        *)
(***************************************************************************)
I(p) == range(p.demand)
J(p) == range(p.candidate)

\* mutant: the objective coefficient leaves the demand weight out
PmedianProblem_Unweighted(b, Pnumber) ==
    [demand |-> b.num_trt, candidate |-> b.num_hosp, P |-> Pnumber,
     coef |-> [ij \in range(b.num_trt) \X range(b.num_hosp) |->
                 CostAt(b.df, ij[1], ij[2])]]

\* ---- P-median (list mode), lines 159-200
PmedianProblem(b, Pnumber) ==
    [demand |-> b.num_trt, candidate |-> b.num_hosp, P |-> Pnumber,
     coef |-> [ij \in range(b.num_trt) \X range(b.num_hosp) |->
                 b.DemandPt[ij[1]].DemandPopu * CostAt(b.df, ij[1], ij[2])]]

PmedianObjective(p, s) == lpSum([ij \in I(p) \X J(p) |-> p.coef[ij] * s.x[ij]])

\* mutant: the linking constraints x[i,j] <= y[j] are left out
PmedianConstraints_NoLink(p, s) ==
    /\ lpSum([j \in J(p) |-> s.y[j]]) = p.P
    /\ \A i \in I(p) : lpSum([j \in J(p) |-> s.x[<<i, j>>]]) = 1

PmedianConstraints(p, s) ==
    /\ lpSum([j \in J(p) |-> s.y[j]]) = p.P
    /\ \A i \in I(p) : lpSum([j \in J(p) |-> s.x[<<i, j>>]]) = 1
    /\ \A i \in I(p) : \A j \in J(p) : s.x[<<i, j>>] - s.y[j] <= 0

\* ---- LSCP, lines 354-384.  The constraint is added once, after the loop
\* over the demand points, from the list the last iteration left behind.
LSCPProblem(b) ==
    [demand |-> b.num_trt, candidate |-> b.num_hosp,
     within |-> [ij \in range(b.num_trt) \X range(b.num_hosp) |->
                   WithinAt(b.df, ij[1], ij[2])],
     constrain |-> [j \in range(b.num_hosp) |->
                      WithinAt(b.df, b.num_trt - 1, j)]]

LSCPObjective(p, s) == lpSum([j \in J(p) |-> s.x[j]])

LSCPConstraints(p, s) == lpSum([j \in J(p) |-> p.constrain[j] * s.x[j]]) >= 1

\* ---- MCLP (list mode), lines 563-599
MCLPProblem(b, Pnumber) ==
    [demand |-> b.num_trt, candidate |-> b.num_hosp, P |-> Pnumber,
     popu |-> [i \in range(b.num_trt) |-> b.DemandPt[i].DemandPopu],
     within |-> [ij \in range(b.num_trt) \X range(b.num_hosp) |->
                   WithinAt(b.df, ij[1], ij[2])]]

\* mutant: the objective is the negated sum
MCLPObjective_Negated(p, s) == 0 - lpSum([i \in I(p) |-> p.popu[i] * s.y[i]])

MCLPObjective(p, s) == lpSum([i \in I(p) |-> p.popu[i] * s.y[i]])

MCLPConstraints(p, s) ==
    /\ lpSum([j \in J(p) |-> s.x[j]]) = p.P
    /\ \A i \in I(p) :
         lpSum([j \in J(p) |-> p.within[<<i, j>>] * s.x[j]]) + s.y[i] >= 1

\* ---- matrix-mode solvers: the problem carries the matrix itself
SolverProblem(b) ==
    [demand |-> b.demand, candidate |-> b.candidate, P |-> b.P,
     cost |-> b.cost_matrix.cells, popu |-> b.popu,
     cutoff |-> b.cutoff, nrequire |-> b.nrequire]

\* P-center Solver, lines 716-747
PcenterObjective(p, s) == s.Z

\* mutant: the constraints that bound every assigned cost by Z are left out
PcenterConstraints_NoRadius(p, s) ==
    /\ \A i \in I(p) : lpSum([j \in J(p) |-> s.x[<<i, j>>]]) = 1
    /\ \A j \in J(p) : \A i \in I(p) : s.x[<<i, j>>] <= s.y[j]
    /\ lpSum([j \in J(p) |-> s.y[j]]) = p.P
    /\ p.nrequire # None => s.y[p.nrequire] = 1

PcenterConstraints(p, s) ==
    /\ \A i \in I(p) : lpSum([j \in J(p) |-> s.x[<<i, j>>]]) = 1
    /\ \A j \in J(p) : \A i \in I(p) : s.x[<<i, j>>] <= s.y[j]
    /\ \A i \in I(p) :
         lpSum([j \in J(p) |-> s.x[<<i, j>>] * p.cost[<<i, j>>]]) <= s.Z
    /\ lpSum([j \in J(p) |-> s.y[j]]) = p.P
    /\ p.nrequire # None => s.y[p.nrequire] = 1

\* P-median Solver, lines 851-879
PmediaObjective(p, s) ==
    lpSum([ij \in I(p) \X J(p) |-> s.x[ij] * p.cost[ij] * p.popu[ij[1]]])

PmediaConstraints(p, s) ==
    /\ \A i \in I(p) : lpSum([j \in J(p) |-> s.x[<<i, j>>]]) = 1
    /\ \A j \in J(p) : \A i \in I(p) : s.x[<<i, j>>] <= s.y[j]
    /\ lpSum([j \in J(p) |-> s.y[j]]) = p.P
    /\ p.nrequire # None => s.y[p.nrequire] = 1

\* MCLP Solver, lines 990-1023 (reached only when nrequire is bound)
MCLPSolverObjective(p, s) ==
    lpSum([ij \in I(p) \X J(p) |-> s.x[ij] * p.popu[ij[1]]])

MCLPSolverConstraints(p, s) ==
    /\ \A i \in I(p) : lpSum([j \in J(p) |-> s.x[<<i, j>>]]) = 1
    /\ \A j \in J(p) : \A i \in I(p) : s.x[<<i, j>>] <= s.y[j]
    /\ \A i \in I(p) :
         lpSum([j \in J(p) |-> p.cost[<<i, j>>] * s.x[<<i, j>>]]) <= p.cutoff
    /\ lpSum([j \in J(p) |-> s.y[j]]) = p.P
    /\ s.y[p.nrequire] = 1

Objective(nd, p, s) ==
    CASE nd = "Pmedian" -> PmedianObjective(p, s)
      [] nd = "LSCP" -> LSCPObjective(p, s)
      [] nd = "MCLP" -> MCLPObjective(p, s)
      [] nd = "PcenterSolver" -> PcenterObjective(p, s)
      [] nd = "PmedianSolver" -> PmediaObjective(p, s)
      [] nd = "MCLPSolver" -> MCLPSolverObjective(p, s)

Constraints(nd, p, s) ==
    CASE nd = "Pmedian" -> PmedianConstraints(p, s)
      [] nd = "LSCP" -> LSCPConstraints(p, s)
      [] nd = "MCLP" -> MCLPConstraints(p, s)
      [] nd = "PcenterSolver" -> PcenterConstraints(p, s)
      [] nd = "PmedianSolver" -> PmediaConstraints(p, s)
      [] nd = "MCLPSolver" -> MCLPSolverConstraints(p, s)

(***************************************************************************)
(* The solver: pulp.LpVariable.dicts(..., cat="Binary") and prob.solve()   *)
(***************************************************************************)
\* index set of the first family of variables (varX / x) of node nd
XIndex(nd, p) == IF nd \in {"LSCP", "MCLP"} THEN J(p) ELSE I(p) \X J(p)

\* index set of the second family of variables (varY / y) of node nd
YIndex(nd, p) ==
    CASE nd = "LSCP" -> {}
      [] nd = "MCLP" -> I(p)
      [] OTHER -> J(p)

\* values of the continuous variable Z (lowBound=0); the costs are integers, so
\* an optimal Z is 0 or one of the cells of the matrix
ZValues(nd, p) ==
    IF nd = "PcenterSolver"
    THEN 0 .. SetMax({p.cost[ij] : ij \in I(p) \X J(p)} \cup {0})
    ELSE {0}

Assignments(nd, p) ==
    {[x |-> fx, y |-> fy, Z |-> z] :
        fx \in [XIndex(nd, p) -> {0, 1}], fy \in [YIndex(nd, p) -> {0, 1}],
        z \in ZValues(nd, p)}

Feasible(nd, p) == {s \in Assignments(nd, p) : Constraints(nd, p, s)}

\* the solutions prob.solve() can return with status Optimal
OptimalSolutions(nd, p) ==
    LET feas == Feasible(nd, p)
        val == [s \in feas |-> Objective(nd, p, s)]
    IN {s \in feas : \A t \in feas : val[s] <= val[t]}

(***************************************************************************)
(* Inputs                                                                  *)
(***************************************************************************)
Label(j) == <<"C0", "C1", "C2", "C3", "C4">>[j + 1]

Labels(m) == [k \in 1..m |-> Label(k - 1)]

Matrices(n, m) == [range(n) \X range(m) -> 1..MaxCost]

WeightVectors(n) == [range(n) -> 0..MaxWeight]

\* facility counts asked for with m candidate columns: up to one more than exist
Pnumbers(m) == 1..(m + 1)

\* facility counts of the MCLP inputs: every count for two candidates, and for
\* more candidates the count that leaves exactly one of them closed
MCLPPnumbers(m) == IF m = 2 THEN Pnumbers(m) ELSE {m - 1}

\* the OD list of a full matrix, one row per pair, in supply-major order
ODList(n, m, c, w) ==
    [k \in 1..(n * m) |->
        LET s == (k - 1) \div n
            d == (k - 1) % n
        IN Row(d, s, w[d], c[<<d, s>>])]

\* the worked example: weights (10, 5), cost matrix [[1, 4], [3, 2]]
ExampleCost == <<0, 0>> :> 1 @@ <<0, 1>> :> 4 @@ <<1, 0>> :> 3 @@ <<1, 1>> :> 2
ExampleWeight == 0 :> 10 @@ 1 :> 5

ListInput(df, P, t) == [df |-> df, Pnumber |-> P, threshold |-> t]

MatrixInput(t, w, req, P, thr) ==
    [matrix |-> t, popu |-> w, required |-> req.col, RequiredID |-> req.id,
     Pnumber |-> P, Threshold |-> thr]

NoRequired == [id |-> NoneId, col |-> NoneCol]

\* the optional distance column of the demand table: absent, or a required
\* facility at the smallest or at the largest distance from every demand point
RequiredColumns(n) ==
    {NoRequired} \cup {[id |-> "dist", col |-> [i \in range(n) |-> r]] : r \in {1, MaxCost}}

\* P-center Solver: the required column is any column of a two-column matrix
RequiredChoices(m) == IF m = 2 THEN {Label(j) : j \in range(m)} ELSE {}

Inputs(nd) ==
    CASE nd = "Pmedian" ->
           UNION {{ListInput(ODList(sh[1], sh[2], c, w), P, None) :
                      c \in Matrices(sh[1], sh[2]), w \in WeightVectors(sh[1]),
                      P \in Pnumbers(sh[2])} :
                  sh \in ShapesOf(nd)}
           \cup {ListInput(ODList(2, 2, ExampleCost, ExampleWeight), 1, None)}
      [] nd = "LSCP" ->
           UNION {{ListInput(ODList(sh[1], sh[2], c, [i \in range(sh[1]) |-> 1]), None, t) :
                      c \in Matrices(sh[1], sh[2]), t \in 1..MaxCost} :
                  sh \in ShapesOf(nd)}
           \cup {ListInput(ODList(2, 2, ExampleCost, ExampleWeight), None, 3)}
      [] nd = "MCLP" ->
           UNION {{ListInput(ODList(sh[1], sh[2], c, w), P, t) :
                      c \in Matrices(sh[1], sh[2]), w \in WeightVectors(sh[1]),
                      P \in MCLPPnumbers(sh[2]), t \in 1..MaxCost} :
                  sh \in ShapesOf(nd)}
      [] nd = "PcenterSolver" ->
           UNION {{MatrixInput(Table(Labels(sh[2]), sh[1], c), NoneCol,
                               [id |-> rid, col |-> NoneCol], P, None) :
                      c \in Matrices(sh[1], sh[2]), P \in Pnumbers(sh[2]),
                      rid \in {NoneId} \cup RequiredChoices(sh[2])} :
                  sh \in ShapesOf(nd)}
      [] nd = "PmedianSolver" ->
           UNION {{MatrixInput(Table(Labels(sh[2]), sh[1], c), w, req, P, None) :
                      c \in Matrices(sh[1], sh[2]), w \in WeightVectors(sh[1]),
                      req \in RequiredColumns(sh[1]), P \in Pnumbers(sh[2])} :
                  sh \in ShapesOf(nd)}
           \cup {MatrixInput(Table(Labels(2), 2, ExampleCost), ExampleWeight,
                             NoRequired, 1, None)}
      [] nd = "MCLPSolver" ->
           UNION {{MatrixInput(Table(Labels(sh[2]), sh[1], c), w, req, P, thr) :
                      c \in Matrices(sh[1], sh[2]), w \in WeightVectors(sh[1]),
                      req \in RequiredColumns(sh[1]), P \in Pnumbers(sh[2]),
                      thr \in 1..MaxCost} :
                  sh \in ShapesOf(nd)}

\* ---- irregular OD lists: rows in another order, rows missing
\* the rows of df in reverse order
Reverse(df) == [k \in 1..Len(df) |-> df[Len(df) + 1 - k]]

\* df without the rows at the positions K
RemoveRows(df, K) ==
    LET Keep(r) == \E k \in (1..Len(df)) \ K : df[k] = r IN
    SelectSeq(df, Keep)

\* the lists derived from a full list: reversed, or with one or two rows missing
\* every order of the rows of df
Orders(df) == {[k \in 1..Len(df) |-> df[p[k]]] : p \in Permutations(1..Len(df))}

ListVariants(df) ==
    {Reverse(df)} \cup Orders(df) \cup
    {RemoveRows(df, K) : K \in {T \in SUBSET (1..Len(df)) : Cardinality(T) \in {1, 2}}}

\* weights of the irregular lists: equal, and one demand point without weight
ListWeights == {[i \in range(2) |-> 1], [i \in range(2) |-> i]}

IrregularInputs(nd) ==
    CASE nd = "Pmedian" ->
           UNION {{ListInput(df, 1, None) : df \in ListVariants(ODList(2, 2, c, w))} :
                  <<c, w>> \in Matrices(2, 2) \X ListWeights}
      [] nd = "LSCP" ->
           UNION {{ListInput(df, None, t) :
                      df \in ListVariants(ODList(2, 2, c, [i \in range(2) |-> 1])),
                      t \in 1..MaxCost} :
                  c \in Matrices(2, 2)}
      [] nd = "MCLP" ->
           UNION {{ListInput(df, P, t) :
                      df \in ListVariants(ODList(2, 2, c, w)),
                      P \in 1..2, t \in 1..MaxCost} :
                  <<c, w>> \in Matrices(2, 2) \X ListWeights}

\* ---- a demand table whose row count differs from the matrix's: one row
\* fewer or one row more than the two rows of the matrix
MismatchedInputs(nd) ==
    UNION {{MatrixInput(Table(Labels(2), 2, c), w, req, 1,
                        IF nd = "MCLPSolver" THEN thr ELSE None) :
               c \in Matrices(2, 2), w \in WeightVectors(d),
               req \in RequiredColumns(d),
               thr \in IF nd = "MCLPSolver" THEN 1..MaxCost ELSE {None}} :
           d \in {1, 3}}

\* ---- facility counts that are not positive (-1 is left out: it stands for
\* None in this module)
InvalidPnumbers == {0 - 2, 0}

InvalidPInputs(nd) ==
    {[in EXCEPT !.Pnumber = P] :
        in \in {i \in Inputs(nd) : i.Pnumber = 1}, P \in InvalidPnumbers}

NotSolved == [status |-> "NotSolved", x |-> <<>>, y |-> <<>>, Z |-> None, objective |-> None]

InitOf(nodes) ==
    /\ node \in nodes
    /\ inp \in Inputs(node)
    /\ pc = "start"
    /\ built = <<>>
    /\ prob = <<>>
    /\ sol = NotSolved
    /\ out = <<>>

(***************************************************************************)
(* Phase 1: the tables execute() derives from its input                    *)
(***************************************************************************)
\* lines 128-154 (and the same code at 326-352 and 535-561)
ListTables(df0) ==
    LET df == sort_values(df0)
        DemandPt == DemandPtOf(df)
        SupplyPt == SupplyPtOf(df)
    IN [df |-> df, DemandPt |-> DemandPt, SupplyPt |-> SupplyPt,
        num_trt |-> Cardinality(DOMAIN DemandPt),
        num_hosp |-> Cardinality(DOMAIN SupplyPt)]

\* the tables of LSCP and MCLP: the sorted frame also carries the column within
ThresholdTables(df0, threshold) ==
    LET t == ListTables(df0) IN [t EXCEPT !.df = within(t.df, threshold)]

PmedianBuild ==
    /\ node = "Pmedian" /\ pc = "start"
    /\ built' = ListTables(inp.df)
    /\ pc' = "built"
    /\ UNCHANGED <<node, inp, prob, sol, out>>

LSCPBuild ==
    /\ node = "LSCP" /\ pc = "start"
    /\ built' = ThresholdTables(inp.df, inp.threshold)
    /\ pc' = "built"
    /\ UNCHANGED <<node, inp, prob, sol, out>>

MCLPBuild ==
    /\ node = "MCLP" /\ pc = "start"
    /\ built' = ThresholdTables(inp.df, inp.threshold)
    /\ pc' = "built"
    /\ UNCHANGED <<node, inp, prob, sol, out>>

\* mutant: P is not incremented for the required facility
EffectiveP_NoIncrement(Pnumber, RequiredID) == Pnumber

\* P = self.Pnumber; if self.RequiredID is not None: P = P + 1
EffectiveP(Pnumber, RequiredID) == IF RequiredID # NoneId THEN Pnumber + 1 ELSE Pnumber

\* P-center Solver, lines 695-713: the required column is one of the matrix's columns
PcenterTables(in) ==
    LET t0 == rename(in.matrix, in.RequiredID)
        cost_matrix == IF in.RequiredID # NoneId THEN MoveRequiredLast(t0) ELSE t0
        candidate == Len(cost_matrix.columns)
    IN [cost_matrix |-> cost_matrix,
        popu |-> NoneCol,
        P |-> EffectiveP(in.Pnumber, in.RequiredID),
        demand |-> cost_matrix.nrows,
        candidate |-> candidate,
        cutoff |-> None,
        nrequire |-> IF in.RequiredID # NoneId THEN candidate - 1 ELSE None]

\* P-median Solver, lines 829-848, and MCLP Solver, lines 967-987: the required
\* column comes from the demand table and is appended to the matrix
SolverTables(in) ==
    LET cost_matrix == IF in.RequiredID # NoneId
                       THEN AppendRequired(in.matrix, in.required)
                       ELSE in.matrix
        candidate == Len(cost_matrix.columns)
    IN [cost_matrix |-> cost_matrix,
        popu |-> in.popu,
        P |-> EffectiveP(in.Pnumber, in.RequiredID),
        demand |-> in.matrix.nrows,
        candidate |-> candidate,
        cutoff |-> in.Threshold,
        nrequire |-> IF in.RequiredID # NoneId THEN candidate - 1 ELSE None]

PcenterSolverBuild ==
    /\ node = "PcenterSolver" /\ pc = "start"
    /\ built' = PcenterTables(inp)
    /\ pc' = "built"
    /\ UNCHANGED <<node, inp, prob, sol, out>>

PmediaSolverBuild ==
    /\ node = "PmedianSolver" /\ pc = "start"
    /\ built' = SolverTables(inp)
    /\ pc' = "built"
    /\ UNCHANGED <<node, inp, prob, sol, out>>

MCLPSolverBuild ==
    /\ node = "MCLPSolver" /\ pc = "start"
    /\ built' = SolverTables(inp)
    /\ pc' = "built"
    /\ UNCHANGED <<node, inp, prob, sol, out>>

(***************************************************************************)
(* Phase 2: formulation                                                    *)
(***************************************************************************)
\* list mode: a pair without a row makes .values[0] raise IndexError
PmedianFormulate ==
    /\ node = "Pmedian" /\ pc = "built"
    /\ IF AllPairsPresent(built.df, built.num_trt, built.num_hosp)
       THEN prob' = PmedianProblem(built, inp.Pnumber) /\ pc' = "formulated"
       ELSE prob' = prob /\ pc' = "error"
    /\ UNCHANGED <<node, inp, built, sol, out>>

LSCPFormulate ==
    /\ node = "LSCP" /\ pc = "built"
    /\ IF AllPairsPresent(built.df, built.num_trt, built.num_hosp)
       THEN prob' = LSCPProblem(built) /\ pc' = "formulated"
       ELSE prob' = prob /\ pc' = "error"
    /\ UNCHANGED <<node, inp, built, sol, out>>

MCLPFormulate ==
    /\ node = "MCLP" /\ pc = "built"
    /\ IF AllPairsPresent(built.df, built.num_trt, built.num_hosp)
       THEN prob' = MCLPProblem(built, inp.Pnumber) /\ pc' = "formulated"
       ELSE prob' = prob /\ pc' = "error"
    /\ UNCHANGED <<node, inp, built, sol, out>>

PcenterSolverFormulate ==
    /\ node = "PcenterSolver" /\ pc = "built"
    /\ prob' = SolverProblem(built)
    /\ pc' = "formulated"
    /\ UNCHANGED <<node, inp, built, sol, out>>

\* the objective reads popu[i] for every i in range(demand): a demand table
\* with fewer rows than the matrix makes the list index raise IndexError
PopuIndexable(b) == \A i \in range(b.demand) : i \in DOMAIN b.popu

PmediaSolverFormulate ==
    /\ node = "PmedianSolver" /\ pc = "built"
    /\ IF PopuIndexable(built)
       THEN prob' = SolverProblem(built) /\ pc' = "formulated"
       ELSE prob' = prob /\ pc' = "error"
    /\ UNCHANGED <<node, inp, built, sol, out>>

\* line 1023 reads nrequire whether or not a required column was selected:
\* without one the name is unbound and the statement raises
MCLPSolverNrequireBound(b) == b.nrequire # None

MCLPSolverFormulate ==
    /\ node = "MCLPSolver" /\ pc = "built"
    /\ IF PopuIndexable(built) /\ MCLPSolverNrequireBound(built)
       THEN prob' = SolverProblem(built) /\ pc' = "formulated"
       ELSE prob' = prob /\ pc' = "error"
    /\ UNCHANGED <<node, inp, built, sol, out>>

(***************************************************************************)
(* Phase 3: prob.solve()                                                   *)
(***************************************************************************)
\* What the variables hold after a solve that found no solution is up to the
\* backend: no value at all, or values that satisfy no constraint set.  The
\* leftovers explored are no value, every variable 0 and every variable 1.
Leftovers(nd, p) ==
    {[x |-> <<>>, y |-> <<>>, Z |-> None]} \cup
    {[x |-> [k \in XIndex(nd, p) |-> v], y |-> [k \in YIndex(nd, p) |-> v], Z |-> 0] :
        v \in {0, 1}}

\* mutant: a solve that finds no solution raises
Solve_Raising ==
    /\ pc = "formulated"
    /\ LET opt == OptimalSolutions(node, prob) IN
         IF opt = {}
         THEN sol' = sol /\ pc' = "error"
         ELSE /\ pc' = "solved"
              /\ \E s \in opt :
                   sol' = [status |-> "Optimal", x |-> s.x, y |-> s.y, Z |-> s.Z,
                           objective |-> Objective(node, prob, s)]
    /\ UNCHANGED <<node, inp, built, prob, out>>

\* mutant: a solve that found no solution is tried again
Solve_Retry ==
    /\ \/ pc = "formulated"
       \/ pc = "solved" /\ sol.status = "Infeasible"
    /\ LET opt == OptimalSolutions(node, prob) IN
         IF opt = {}
         THEN \E v \in Leftovers(node, prob) :
                sol' = [status |-> "Infeasible", x |-> v.x, y |-> v.y, Z |-> v.Z,
                        objective |-> None]
         ELSE \E s \in opt :
                sol' = [status |-> "Optimal", x |-> s.x, y |-> s.y, Z |-> s.Z,
                        objective |-> Objective(node, prob, s)]
    /\ pc' = "solved"
    /\ UNCHANGED <<node, inp, built, prob, out>>

\* The binary variables are bounded, so the status is Optimal or Infeasible;
\* problem.solve() returns the status and raises nothing.
Solve ==
    /\ pc = "formulated"
    /\ LET opt == OptimalSolutions(node, prob) IN
         IF opt = {}
         THEN \E v \in Leftovers(node, prob) :
                sol' = [status |-> "Infeasible", x |-> v.x, y |-> v.y, Z |-> v.Z,
                        objective |-> None]
         ELSE \E s \in opt :
                sol' = [status |-> "Optimal", x |-> s.x, y |-> s.y, Z |-> s.Z,
                        objective |-> Objective(node, prob, s)]
    /\ pc' = "solved"
    /\ UNCHANGED <<node, inp, built, prob, out>>

(***************************************************************************)
(* Phase 4: result extraction                                              *)
(***************************************************************************)
\* v.varValue / pulp.value(v): None when the solve assigned no value
varValue(so, f, k) == IF k \in DOMAIN f THEN f[k] ELSE None

\* lines 207-214: the X names are visited in order, every one whose value is 1
\* overwrites the assignment of its demand point
PmedianAssign(b, so, i) ==
    LET ones == {j \in range(b.num_hosp) : varValue(so, so.x, <<i, j>>) = 1} IN
    IF ones = {} THEN None ELSE b.SupplyPt[SetMax(ones)].SupplyID

ListOutput(b, assign) ==
    [i \in range(b.num_trt) |->
        [DemandID |-> b.DemandPt[i].DemandID,
         DemandPopu |-> b.DemandPt[i].DemandPopu,
         assignSID |-> assign[i]]]

\* lines 216-227: LineString needs both end points, a missing SIDcoord raises
PmedianExtract ==
    /\ node = "Pmedian" /\ pc = "solved"
    /\ LET assign == [i \in range(built.num_trt) |-> PmedianAssign(built, sol, i)] IN
         IF \A i \in range(built.num_trt) : assign[i] # None
         THEN out' = ListOutput(built, assign) /\ pc' = "done"
         ELSE out' = out /\ pc' = "error"
    /\ UNCHANGED <<node, inp, built, prob, sol>>

\* lines 394-401 / 608-614: the OIDs of the facilities whose variable is 1
Area(b, so) == {j \in range(b.num_hosp) : varValue(so, so.x, j) = 1}

\* mutant: only the open facilities within the threshold are looked at
RowsToOpen_Within(df, it, area) ==
    {k \in 1..Len(df) : df[k].DemandID = it /\ df[k].SupplyID \in area /\ df[k].within = 1}

\* df[(df[DemandID] == it) & (df[SupplyID].isin(area["OID"]))]
RowsToOpen(df, it, area) ==
    {k \in 1..Len(df) : df[k].DemandID = it /\ df[k].SupplyID \in area}

\* mutant: the last row of minimal cost
idxmin_Last(df, rows) ==
    CHOOSE k \in rows :
        \A l \in rows : df[k].ODcost < df[l].ODcost
                        \/ (df[k].ODcost = df[l].ODcost /\ k >= l)

\* pd.to_numeric(...[ODcost]).idxmin(): the first row of minimal cost
idxmin(df, rows) ==
    CHOOSE k \in rows :
        \A l \in rows : df[k].ODcost < df[l].ODcost
                        \/ (df[k].ODcost = df[l].ODcost /\ k <= l)

\* lines 403-411 / 616-624; idxmin of an empty selection raises, and so does
\* SupplyPt.at[oid, ...] for an oid that is no row of SupplyPt
NearestAssignable(b, area) ==
    \A it \in range(b.num_trt) :
        /\ RowsToOpen(b.df, it, area) # {}
        /\ b.df[idxmin(b.df, RowsToOpen(b.df, it, area))].SupplyID \in DOMAIN b.SupplyPt

NearestAssign(b, area, it) ==
    LET oid == b.df[idxmin(b.df, RowsToOpen(b.df, it, area))].SupplyID
    IN b.SupplyPt[oid].SupplyID

LSCPExtract ==
    /\ node = "LSCP" /\ pc = "solved"
    /\ LET area == Area(built, sol) IN
         IF NearestAssignable(built, area)
         THEN /\ out' = ListOutput(built, [it \in range(built.num_trt) |->
                                              NearestAssign(built, area, it)])
              /\ pc' = "done"
         ELSE out' = out /\ pc' = "error"
    /\ UNCHANGED <<node, inp, built, prob, sol>>

MCLPExtract ==
    /\ node = "MCLP" /\ pc = "solved"
    /\ LET area == Area(built, sol) IN
         IF NearestAssignable(built, area)
         THEN /\ out' = ListOutput(built, [it \in range(built.num_trt) |->
                                              NearestAssign(built, area, it)])
              /\ pc' = "done"
         ELSE out' = out /\ pc' = "error"
    /\ UNCHANGED <<node, inp, built, prob, sol>>

\* lines 755-759 / 888-892 / 1031-1035: one row per column of cost_matrix;
\* astype(int) raises on a Chosen that has no value
dfy(b, so) ==
    [j \in range(b.candidate) |->
        [FacilityID |-> b.cost_matrix.columns[j + 1],
         Chosen |-> varValue(so, so.y, j)]]

SolverExtract(nd) ==
    /\ node = nd /\ pc = "solved"
    /\ IF \A j \in range(built.candidate) : varValue(sol, sol.y, j) # None
       THEN out' = dfy(built, sol) /\ pc' = "done"
       ELSE out' = out /\ pc' = "error"
    /\ UNCHANGED <<node, inp, built, prob, sol>>

PcenterSolverExtract == SolverExtract("PcenterSolver")

PmediaSolverExtract == SolverExtract("PmedianSolver")

MCLPSolverExtract == SolverExtract("MCLPSolver")

Next ==
    \/ PmedianBuild \/ PmedianFormulate \/ PmedianExtract
    \/ LSCPBuild \/ LSCPFormulate \/ LSCPExtract
    \/ MCLPBuild \/ MCLPFormulate \/ MCLPExtract
    \/ PcenterSolverBuild \/ PcenterSolverFormulate \/ PcenterSolverExtract
    \/ PmediaSolverBuild \/ PmediaSolverFormulate \/ PmediaSolverExtract
    \/ MCLPSolverBuild \/ MCLPSolverFormulate \/ MCLPSolverExtract
    \/ Solve

Init == InitOf(ListNodes \cup MatrixNodes)

Spec == Init /\ [][Next]_vars

(***************************************************************************)
(* The same executions, one family of nodes at a time                      *)
(***************************************************************************)
InitPmedian == InitOf({"Pmedian", "PmedianSolver"})

NextPmedian ==
    \/ PmedianBuild \/ PmedianFormulate \/ PmedianExtract
    \/ PmediaSolverBuild \/ PmediaSolverFormulate \/ PmediaSolverExtract
    \/ Solve

SpecPmedian == InitPmedian /\ [][NextPmedian]_vars

InitLSCP == InitOf({"LSCP"})

NextLSCP == LSCPBuild \/ LSCPFormulate \/ LSCPExtract \/ Solve

SpecLSCP == InitLSCP /\ [][NextLSCP]_vars

InitMCLP == InitOf({"MCLP"})

NextMCLP == MCLPBuild \/ MCLPFormulate \/ MCLPExtract \/ Solve

SpecMCLP == InitMCLP /\ [][NextMCLP]_vars

InitPcenter == InitOf({"PcenterSolver"})

NextPcenter ==
    PcenterSolverBuild \/ PcenterSolverFormulate \/ PcenterSolverExtract \/ Solve

SpecPcenter == InitPcenter /\ [][NextPcenter]_vars

\* the three matrix-mode solvers on the two-column matrices
InitSolvers == InitOf(MatrixNodes) /\ Len(inp.matrix.columns) = 2

NextSolvers ==
    \/ PcenterSolverBuild \/ PcenterSolverFormulate \/ PcenterSolverExtract
    \/ PmediaSolverBuild \/ PmediaSolverFormulate \/ PmediaSolverExtract
    \/ MCLPSolverBuild \/ MCLPSolverFormulate \/ MCLPSolverExtract
    \/ Solve

SpecSolvers == InitSolvers /\ [][NextSolvers]_vars

\* the matrix-mode solvers with a required column: P-center Solver on three
\* columns, any of them the required one, the other two on two columns
RequiredInputs(nd) ==
    CASE nd = "PcenterSolver" ->
           {MatrixInput(Table(Labels(3), 2, c), NoneCol,
                        [id |-> Label(q), col |-> NoneCol], 1, None) :
               c \in Matrices(2, 3), q \in range(3)}
      [] nd = "PmedianSolver" ->
           {MatrixInput(Table(Labels(2), 2, c), [i \in range(2) |-> 1], req, 1, None) :
               c \in Matrices(2, 2), req \in RequiredColumns(2) \ {NoRequired}}
      [] nd = "MCLPSolver" ->
           {MatrixInput(Table(Labels(2), 2, c), [i \in range(2) |-> 1], req, 1, thr) :
               c \in Matrices(2, 2), req \in RequiredColumns(2) \ {NoRequired},
               thr \in 1..MaxCost}

InitRequired ==
    /\ node \in MatrixNodes
    /\ inp \in RequiredInputs(node)
    /\ pc = "start"
    /\ built = <<>>
    /\ prob = <<>>
    /\ sol = NotSolved
    /\ out = <<>>

SpecRequired == InitRequired /\ [][NextSolvers]_vars

\* a 2x2 list whose two rows of demand point 0 carry their own weight, which
\* may be missing in one of them
UnevenList(c, w0, w1) ==
    <<Row(0, 0, w0, c[<<0, 0>>]), Row(1, 0, 1, c[<<1, 0>>]),
      Row(0, 1, w1, c[<<0, 1>>]), Row(1, 1, 1, c[<<1, 1>>])>>

RowWeights == {<<w0, w1>> \in ({None} \cup (0..MaxWeight)) \X ({None} \cup (0..MaxWeight)) :
                  w0 # None \/ w1 # None}

RowCosts == {c \in Matrices(2, 2) : c[<<1, 1>>] = 1}

\* every order of the rows of such a list
RowInputs(nd) ==
    CASE nd = "Pmedian" ->
           UNION {{ListInput(df, 1, None) : df \in Orders(UnevenList(c, w[1], w[2]))} :
                  <<c, w>> \in RowCosts \X RowWeights}
      [] nd = "LSCP" ->
           UNION {{ListInput(df, None, t) :
                      df \in Orders(UnevenList(c, 1, 1)), t \in 1..MaxCost} :
                  c \in RowCosts}
      [] nd = "MCLP" ->
           UNION {{ListInput(df, 1, t) :
                      df \in Orders(UnevenList(c, w[1], w[2])), t \in 1..MaxCost} :
                  <<c, w>> \in RowCosts \X RowWeights}

InitRows ==
    /\ node \in ListNodes
    /\ inp \in RowInputs(node)
    /\ pc = "start"
    /\ built = <<>>
    /\ prob = <<>>
    /\ sol = NotSolved
    /\ out = <<>>

\* df with the row r put in after its first k rows
InsertAt(df, k, r) == SubSeq(df, 1, k) \o <<r>> \o SubSeq(df, k + 1, Len(df))

\* a complete 2x2 list with one more row for a pair it already has, at another
\* or the same cost, anywhere in the list
DuplicatedLists ==
    {InsertAt(ODList(2, 2, c, [i \in range(2) |-> 1]), k, Row(ds[1], ds[2], 1, c2)) :
        c \in Matrices(2, 2), k \in 0..4, ds \in range(2) \X range(2), c2 \in 1..MaxCost}

DuplicateInputs(nd) ==
    CASE nd = "Pmedian" -> {ListInput(df, 1, None) : df \in DuplicatedLists}
      [] nd = "LSCP" -> {ListInput(df, None, t) : df \in DuplicatedLists, t \in 1..MaxCost}
      [] nd = "MCLP" -> {ListInput(df, 1, t) : df \in DuplicatedLists, t \in 1..MaxCost}

InitDuplicates ==
    /\ node \in ListNodes
    /\ inp \in DuplicateInputs(node)
    /\ pc = "start"
    /\ built = <<>>
    /\ prob = <<>>
    /\ sol = NotSolved
    /\ out = <<>>

\* a complete 2x2 list of weight 1 whose demand ids and supply ids are any two
\* of -1..2: dense from 0 or not
IdPairs == {ids \in ((0 - 1)..2) \X ((0 - 1)..2) : ids[1] < ids[2]}

RelabelledList(c, D, S) ==
    [k \in 1..4 |->
        LET s == (k - 1) \div 2
            d == (k - 1) % 2
        IN Row(D[d + 1], S[s + 1], 1, c[<<d, s>>])]

RelabelledLists == {RelabelledList(c, D, S) : c \in Matrices(2, 2), D \in IdPairs, S \in IdPairs}

RelabelledInputs(nd) ==
    CASE nd = "Pmedian" -> {ListInput(df, 1, None) : df \in RelabelledLists}
      [] nd = "LSCP" -> {ListInput(df, None, t) : df \in RelabelledLists, t \in 1..MaxCost}
      [] nd = "MCLP" -> {ListInput(df, 1, t) : df \in RelabelledLists, t \in 1..MaxCost}

InitIds ==
    /\ node \in ListNodes
    /\ inp \in RelabelledInputs(node)
    /\ pc = "start"
    /\ built = <<>>
    /\ prob = <<>>
    /\ sol = NotSolved
    /\ out = <<>>

\* the list-mode nodes on OD lists whose rows are reordered or missing
InitLists ==
    /\ node \in ListNodes
    /\ inp \in IrregularInputs(node)
    /\ pc = "start"
    /\ built = <<>>
    /\ prob = <<>>
    /\ sol = NotSolved
    /\ out = <<>>

NextLists ==
    \/ PmedianBuild \/ PmedianFormulate \/ PmedianExtract
    \/ LSCPBuild \/ LSCPFormulate \/ LSCPExtract
    \/ MCLPBuild \/ MCLPFormulate \/ MCLPExtract
    \/ Solve

SpecLists == InitLists /\ [][NextLists]_vars

\* the list nodes on lists whose rows disagree on a weight, in every row order
SpecRows == InitRows /\ [][NextLists]_vars

\* the list nodes on lists that hold one pair twice
SpecDuplicates == InitDuplicates /\ [][NextLists]_vars

\* the list nodes on lists whose ids need not be 0..n-1
SpecIds == InitIds /\ [][NextLists]_vars

\* P-median Solver and MCLP Solver on a demand table and a matrix table whose
\* row counts differ
InitMismatch ==
    /\ node \in {"PmedianSolver", "MCLPSolver"}
    /\ inp \in MismatchedInputs(node)
    /\ pc = "start"
    /\ built = <<>>
    /\ prob = <<>>
    /\ sol = NotSolved
    /\ out = <<>>

NextMismatch ==
    \/ PmediaSolverBuild \/ PmediaSolverFormulate \/ PmediaSolverExtract
    \/ MCLPSolverBuild \/ MCLPSolverFormulate \/ MCLPSolverExtract
    \/ Solve

SpecMismatch == InitMismatch /\ [][NextMismatch]_vars

\* the five nodes that take a facility count, run with a count that is not positive
PNodes == {"Pmedian", "MCLP", "PcenterSolver", "PmedianSolver", "MCLPSolver"}

InitInvalidP ==
    /\ node \in PNodes
    /\ inp \in InvalidPInputs(node)
    /\ pc = "start"
    /\ built = <<>>
    /\ prob = <<>>
    /\ sol = NotSolved
    /\ out = <<>>

NextInvalidP ==
    \/ PmedianBuild \/ PmedianFormulate \/ PmedianExtract
    \/ MCLPBuild \/ MCLPFormulate \/ MCLPExtract
    \/ PcenterSolverBuild \/ PcenterSolverFormulate \/ PcenterSolverExtract
    \/ PmediaSolverBuild \/ PmediaSolverFormulate \/ PmediaSolverExtract
    \/ MCLPSolverBuild \/ MCLPSolverFormulate \/ MCLPSolverExtract
    \/ Solve

SpecInvalidP == InitInvalidP /\ [][NextInvalidP]_vars

\* every node, on its tables of two demand points and two candidates
\* two demand points of weight 1 and two candidates, every cost table, a
\* facility count that can be met and one that cannot
ExecInputs(nd) ==
    LET w == [i \in range(2) |-> 1]
        Ps == {1, 3}
    IN CASE nd = "Pmedian" ->
              {ListInput(ODList(2, 2, c, w), P, None) : c \in Matrices(2, 2), P \in Ps}
         [] nd = "LSCP" ->
              {ListInput(ODList(2, 2, c, w), None, t) :
                  c \in Matrices(2, 2), t \in 1..MaxCost}
         [] nd = "MCLP" ->
              {ListInput(ODList(2, 2, c, w), P, t) :
                  c \in Matrices(2, 2), P \in Ps, t \in 1..MaxCost}
         [] nd = "PcenterSolver" ->
              {MatrixInput(Table(Labels(2), 2, c), NoneCol,
                           [id |-> rid, col |-> NoneCol], P, None) :
                  c \in Matrices(2, 2), P \in Ps,
                  rid \in {NoneId} \cup RequiredChoices(2)}
         [] nd = "PmedianSolver" ->
              {MatrixInput(Table(Labels(2), 2, c), w, req, P, None) :
                  c \in Matrices(2, 2), req \in RequiredColumns(2), P \in Ps}
         [] nd = "MCLPSolver" ->
              {MatrixInput(Table(Labels(2), 2, c), w, req, P, thr) :
                  c \in Matrices(2, 2), req \in RequiredColumns(2), P \in Ps,
                  thr \in 1..MaxCost}

InitExec ==
    /\ node \in ListNodes \cup MatrixNodes
    /\ inp \in ExecInputs(node)
    /\ pc = "start"
    /\ built = <<>>
    /\ prob = <<>>
    /\ sol = NotSolved
    /\ out = <<>>

SpecExec == InitExec /\ [][Next]_vars

(***************************************************************************)
(* Distance-matrix nodes (knime_extension/src/nodes/spatialnetwork.py).    *)
(* The remote service is the environment: the input carries, for every     *)
(* request the node will make, the response it will get.  The phases are   *)
(*   start -> fetching -> done                                             *)
(* built holds the frame being filled and the loop position, out the       *)
(* returned table.                                                         *)
(***************************************************************************)
\* durations (seconds, whole minutes) and distances (meters) a service reports
Seconds == {60 * c : c \in 1..MaxCost}
Meters == {1000 * c : c \in 1..MaxCost}

\* round(nt_time / 60, 2), and gdf.duration / 60: exact on whole minutes
Minutes(seconds) == seconds \div 60

\* ---- Google Distance Matrix
\* a reply to one request: ok is FALSE when urlopen or json.loads raises; a
\* field is None when the path rows[0].elements[0].<field>.value is not there
GoogleResponses ==
    {[ok |-> FALSE, duration |-> None, distance |-> None]} \cup
    {[ok |-> TRUE, duration |-> d, distance |-> s] :
        d \in {None} \cup Seconds, s \in {None} \cup Meters}

\* lines 108-126: the two results start at 0; the duration is read first, then
\* the distance, then both are converted; any exception ends the try block
fetch_google_OD(resp) ==
    IF ~resp.ok THEN <<0, 0>>
    ELSE IF resp.duration = None THEN <<0, 0>>
    ELSE IF resp.distance = None THEN <<resp.duration, 0>>
    ELSE <<Minutes(resp.duration), resp.distance>>

\* lines 137-145: the cross join in origin-major order, ids from 1, costs 0
GoogleFrame(nO, nD) ==
    [i \in range(nO * nD) |->
        [OriginID |-> (i \div nD) + 1, DestinationID |-> (i % nD) + 1,
         duration |-> 0, distance |-> 0]]

GoogleInputs ==
    UNION {{[nO |-> sh[1], nD |-> sh[2], responses |-> rs] :
               rs \in [range(sh[1] * sh[2]) -> GoogleResponses]} :
           sh \in {<<1, 1>>, <<1, 2>>, <<2, 1>>}}

GoogleBuild ==
    /\ node = "GoogleDistanceMatrix" /\ pc = "start"
    /\ built' = [distance_matrix |-> GoogleFrame(inp.nO, inp.nD), i |-> 0]
    /\ pc' = "fetching"
    /\ UNCHANGED <<node, inp, prob, sol, out>>

\* lines 147-162: one turn of the loop over the pairs
GoogleFetch ==
    /\ node = "GoogleDistanceMatrix" /\ pc = "fetching"
    /\ built.i < inp.nO * inp.nD
    /\ LET Google_Travel_Cost == fetch_google_OD(inp.responses[built.i]) IN
         built' = [distance_matrix |->
                      [built.distance_matrix EXCEPT
                          ![built.i].duration = Google_Travel_Cost[1],
                          ![built.i].distance = Google_Travel_Cost[2]],
                   i |-> built.i + 1]
    /\ UNCHANGED <<node, pc, inp, prob, sol, out>>

\* lines 163-165: the columns become floats and the frame is returned
GoogleReturn ==
    /\ node = "GoogleDistanceMatrix" /\ pc = "fetching"
    /\ built.i = inp.nO * inp.nD
    /\ out' = built.distance_matrix
    /\ pc' = "done"
    /\ UNCHANGED <<node, inp, built, prob, sol>>

\* ---- OSRM Matrix
slnum == 50

OSRMModels == {"Travel Cost", "Route", "Travel Cost and Route"}

\* routes[0].legs, or its duration and distance, are not there (or do not fit
\* the batch)
NoLegs == [duration |-> None, distance |-> None]

\* a reply to the request of one batch: ok is FALSE when requests.get or
\* json.loads raises; legs holds the duration and the distance of every trip
\* of the batch; route tells whether extractRoute finds the geometry and the
\* waypoints
OSRMResponses ==
    {[ok |-> FALSE, code |-> NoneId, legs |-> NoLegs, route |-> FALSE],
     [ok |-> TRUE, code |-> "NoRoute", legs |-> NoLegs, route |-> FALSE]} \cup
    {[ok |-> TRUE, code |-> "Ok", legs |-> l, route |-> r] :
        l \in {NoLegs} \cup {[duration |-> 60 * c, distance |-> 1000 * c] : c \in 1..MaxCost},
        r \in BOOLEAN}

\* lines 378-393: the frame before any request
OSRMFrame(nO, nD, osrmmodel) ==
    [i \in range(nO * nD) |->
        [OriginID |-> (i \div nD) + 1, DestinationID |-> (i % nD) + 1,
         duration |-> IF osrmmodel # "Route" THEN 0 ELSE None,
         distance |-> IF osrmmodel # "Route" THEN 0 ELSE None,
         geometry |-> IF osrmmodel # "Travel Cost" THEN "LineString((0,0),(1,1))" ELSE NoneId]]

\* lines 323-361: the costs are written before the route is extracted; an
\* exception anywhere ends the try block and keeps what was written
updatePart(df, ns, ne, resp, osrmmodel) ==
    LET rows == {k \in DOMAIN df : ns <= k /\ k <= ne}
        withCost == [k \in DOMAIN df |->
                       IF k \in rows
                       THEN [df[k] EXCEPT !.duration = resp.legs.duration,
                                          !.distance = resp.legs.distance]
                       ELSE df[k]]
        df1 == IF osrmmodel # "Route" THEN withCost ELSE df
        withRoute == [k \in DOMAIN df |->
                        IF k \in rows THEN [df1[k] EXCEPT !.geometry = "route"] ELSE df1[k]]
    IN IF ~resp.ok \/ resp.code # "Ok" THEN df
       ELSE IF osrmmodel # "Route" /\ resp.legs = NoLegs THEN df
       ELSE IF osrmmodel = "Travel Cost" THEN df1
       ELSE IF ~resp.route THEN df1
       ELSE withRoute

\* lines 386-388 and 395-403: the row ranges of the requests, in order
nloop(nlength) == nlength \div slnum
ntail(nlength) == nlength % slnum

\* mutant: the rows after the last full batch are not requested
Batches_NoTail(nlength) ==
    [b \in 1..nloop(nlength) |-> <<slnum * (b - 1), slnum * (b - 1) + slnum - 1>>]

Batches(nlength) ==
    [b \in 1..(nloop(nlength) + IF ntail(nlength) > 0 THEN 1 ELSE 0) |->
        IF b <= nloop(nlength)
        THEN <<slnum * (b - 1), slnum * (b - 1) + slnum - 1>>
        ELSE <<slnum * nloop(nlength), slnum * nloop(nlength) + ntail(nlength) - 1>>]

OSRMInputs ==
    UNION {{[nO |-> sh[1], nD |-> sh[2], osrmmodel |-> m, responses |-> rs] :
               m \in OSRMModels,
               rs \in [1..Len(Batches(sh[1] * sh[2])) -> OSRMResponses]} :
           sh \in {<<1, 1>>, <<1, 50>>, <<1, 51>>, <<2, 50>>}}

OSRMBuild ==
    /\ node = "OSRMDriveMatrix" /\ pc = "start"
    /\ built' = [df |-> OSRMFrame(inp.nO, inp.nD, inp.osrmmodel), calls |-> <<>>]
    /\ pc' = "fetching"
    /\ UNCHANGED <<node, inp, prob, sol, out>>

\* one call of updatePart
OSRMUpdate ==
    /\ node = "OSRMDriveMatrix" /\ pc = "fetching"
    /\ Len(built.calls) < Len(Batches(inp.nO * inp.nD))
    /\ LET b == Len(built.calls) + 1
           nsne == Batches(inp.nO * inp.nD)[b]
       IN built' = [df |-> updatePart(built.df, nsne[1], nsne[2],
                                      inp.responses[b], inp.osrmmodel),
                    calls |-> Append(built.calls, nsne)]
    /\ UNCHANGED <<node, pc, inp, prob, sol, out>>

\* lines 405-415: seconds become minutes, the columns of the mode are returned
OSRMReturn ==
    /\ node = "OSRMDriveMatrix" /\ pc = "fetching"
    /\ Len(built.calls) = Len(Batches(inp.nO * inp.nD))
    /\ out' = [k \in DOMAIN built.df |->
                 IF inp.osrmmodel = "Route" THEN built.df[k]
                 ELSE [built.df[k] EXCEPT !.duration = Minutes(built.df[k].duration)]]
    /\ pc' = "done"
    /\ UNCHANGED <<node, inp, built, prob, sol>>

InitFetch ==
    /\ node \in {"GoogleDistanceMatrix", "OSRMDriveMatrix"}
    /\ inp \in IF node = "GoogleDistanceMatrix" THEN GoogleInputs ELSE OSRMInputs
    /\ pc = "start"
    /\ built = <<>>
    /\ prob = <<>>
    /\ sol = NotSolved
    /\ out = <<>>

NextFetch ==
    \/ GoogleBuild \/ GoogleFetch \/ GoogleReturn
    \/ OSRMBuild \/ OSRMUpdate \/ OSRMReturn

SpecFetch == InitFetch /\ [][NextFetch]_vars

\* OSRM Drive Matrix on tables of 0 to 153 origin-destination rows; every
\* request of a run gets the same reply
BatchSizes == {<<nO, nD>> : nO \in 0..3, nD \in {1, slnum - 1, slnum, slnum + 1}}

BatchReplies ==
    {[ok |-> FALSE, code |-> NoneId, legs |-> NoLegs, route |-> FALSE],
     [ok |-> TRUE, code |-> "Ok", legs |-> [duration |-> 60, distance |-> 1000],
      route |-> TRUE]}

BatchInputs ==
    {[nO |-> sh[1], nD |-> sh[2], osrmmodel |-> m,
      responses |-> [b \in 1..Len(Batches(sh[1] * sh[2])) |-> r]] :
        sh \in BatchSizes, m \in OSRMModels, r \in BatchReplies}

InitBatches ==
    /\ node = "OSRMDriveMatrix"
    /\ inp \in BatchInputs
    /\ pc = "start"
    /\ built = <<>>
    /\ prob = <<>>
    /\ sol = NotSolved
    /\ out = <<>>

NextBatches == OSRMBuild \/ OSRMUpdate \/ OSRMReturn

SpecBatches == InitBatches /\ [][NextBatches]_vars

(***************************************************************************)
(* The Distance helper (knime_extension/src/util/projection.py).           *)
(* For node = "Distance" the variables hold                                *)
(*   inp    the constructor arguments, the caller's frame and in_place     *)
(*   built  the Distance object (self)                                     *)
(*   prob   the caller's side: its frame gdf, the frame work it got back   *)
(*          from pre_processing (aliased when that is the same object as   *)
(*          gdf), and the execution context's canceled flag                *)
(*   sol    the calls made so far, each with its result                    *)
(*   out    the log of cancellation checks and re-projections              *)
(* A frame is its CRS and the UTM zone its geometries lie in.              *)
(***************************************************************************)
DEFAULT_CRS == "epsg:4326"

GeographicCRS == {"epsg:4326", "epsg:4269"}
ProjectedCRS == {"epsg:3857", "utm31", "utm32"}

\* lines 68-80
is_projected(crs) == crs \in ProjectedCRS

\* Distance.Unit, lines 123-147, and two names that are no unit
Units == {"INPUT", "METER", "KILOMETER", "MILES", "DEGREE"}
UnitNames == Units \cup {"FEET", "meter"}

Frame(crs, utm) == [crs |-> crs, utm |-> utm]

\* gdf.to_crs(crs): the frame in another CRS
to_crs(gdf, crs) == [gdf EXCEPT !.crs = crs]

\* a call's outcome: what it raised (NoneId when it returned), the value it
\* returned, the object and the caller's frame after it, what it logged
Outcome(raised, value, self, gdf, events) ==
    [raised |-> raised, value |-> value, self |-> self, gdf |-> gdf, events |-> events]

check_canceled == [ev |-> "check_canceled", crs |-> NoneId]
canceled_signal == [ev |-> "cancel", crs |-> NoneId]
reprojection(crs) == [ev |-> "to_crs", crs |-> crs]

\* mutant: the frame is re-projected without a look at the execution context
Project_Unchecked(self, canceled, gdf, in_place, new_crs, events) ==
    LET ev == Append(events, reprojection(new_crs)) IN
    IF in_place
    THEN Outcome(NoneId, to_crs(gdf, new_crs), self, to_crs(gdf, new_crs), ev)
    ELSE Outcome(NoneId, to_crs(gdf, new_crs), self, gdf, ev)

\* lines 206-212: the check, then the re-projection, in place or of a copy
Project(self, canceled, gdf, in_place, new_crs, events) ==
    IF canceled
    THEN Outcome("Canceled", NoneId, self, gdf, Append(events, check_canceled))
    ELSE LET ev == events \o <<check_canceled, reprojection(new_crs)>> IN
         IF in_place
         THEN Outcome(NoneId, to_crs(gdf, new_crs), self, to_crs(gdf, new_crs), ev)
         ELSE Outcome(NoneId, to_crs(gdf, new_crs), self, gdf, ev)

\* what the execution context answers during one call: not canceled, canceled
\* before the call, or canceled while the call runs, after its first
\* re-projection and before its second check
Contexts == {"running", "canceled", "canceled_late"}

\* lines 160-212
pre_processing(self0, exec_context, gdf, in_place) ==
    LET self == [self0 EXCEPT !.orig_crs = gdf.crs]
        unit == self.unit
        canceled == exec_context = "canceled"
    IN IF unit = "INPUT" THEN Outcome(NoneId, gdf, self, gdf, <<>>)
       ELSE IF unit = "DEGREE"
       THEN IF is_projected(gdf.crs)
            THEN Project(self, canceled, gdf, in_place, DEFAULT_CRS, <<>>)
            ELSE Outcome(NoneId, gdf, self, gdf, <<>>)
       ELSE IF unit \in {"METER", "KILOMETER", "MILES"}
       THEN IF is_projected(gdf.crs)
            THEN IF canceled
                 THEN Outcome("Canceled", NoneId, self, gdf, <<check_canceled>>)
                 ELSE IF exec_context = "canceled_late"
                 THEN Project(self, TRUE, gdf, in_place, gdf.utm,
                              <<check_canceled, reprojection(DEFAULT_CRS), canceled_signal>>)
                 ELSE Project(self, FALSE, gdf, in_place, gdf.utm,
                              <<check_canceled, reprojection(DEFAULT_CRS)>>)
            ELSE Project(self, canceled, gdf, in_place, gdf.utm, <<>>)
       ELSE Outcome("ValueError", NoneId, self, gdf, <<>>)

\* pre_processing returns its argument itself (lines 169, 176, 209-210), not a
\* re-projected copy (line 212)
ReturnsArgument(self, gdf, in_place) ==
    \/ self.unit = "INPUT"
    \/ self.unit = "DEGREE" /\ ~is_projected(gdf.crs)
    \/ in_place

\* mutant: a unit that is not known is taken for the unit of the input
get_distance_Lenient(self) ==
    Outcome(NoneId,
            IF self.unit = "KILOMETER" THEN self.distance * 1000 * 100
            ELSE IF self.unit = "MILES" THEN self.distance * 160934
            ELSE self.distance * 100,
            self, NoneId, <<>>)

\* mutant: a mile is taken for 1609 metres
get_distance_Rounded(self) ==
    IF self.unit \in {"INPUT", "DEGREE", "METER"}
    THEN Outcome(NoneId, self.distance * 100, self, NoneId, <<>>)
    ELSE IF self.unit = "KILOMETER"
    THEN Outcome(NoneId, self.distance * 1000 * 100, self, NoneId, <<>>)
    ELSE IF self.unit = "MILES"
    THEN Outcome(NoneId, self.distance * 160900, self, NoneId, <<>>)
    ELSE Outcome("ValueError", NoneId, self, NoneId, <<>>)

\* lines 214-233; the value is in hundredths, the factor of MILES is 1609.34
get_distance(self) ==
    IF self.unit \in {"INPUT", "DEGREE", "METER"}
    THEN Outcome(NoneId, self.distance * 100, self, NoneId, <<>>)
    ELSE IF self.unit = "KILOMETER"
    THEN Outcome(NoneId, self.distance * 1000 * 100, self, NoneId, <<>>)
    ELSE IF self.unit = "MILES"
    THEN Outcome(NoneId, self.distance * 160934, self, NoneId, <<>>)
    ELSE Outcome("ValueError", NoneId, self, NoneId, <<>>)

\* mutant: the frame is projected back to the default CRS
post_processing_Default(self, exec_context, gdf) ==
    LET canceled == exec_context = "canceled" IN
    IF ~self.keep_input_crs THEN Outcome(NoneId, gdf, self, gdf, <<>>)
    ELSE IF canceled THEN Outcome("Canceled", NoneId, self, gdf, <<check_canceled>>)
    ELSE Outcome(NoneId, to_crs(gdf, DEFAULT_CRS), self, to_crs(gdf, DEFAULT_CRS),
                 <<check_canceled, reprojection(DEFAULT_CRS)>>)

\* lines 235-243; to_crs(None) raises
post_processing(self, exec_context, gdf) ==
    LET canceled == exec_context = "canceled" IN
    IF ~self.keep_input_crs THEN Outcome(NoneId, gdf, self, gdf, <<>>)
    ELSE IF canceled THEN Outcome("Canceled", NoneId, self, gdf, <<check_canceled>>)
    ELSE IF self.orig_crs = NoneId
    THEN Outcome("ValueError", NoneId, self, gdf, <<check_canceled>>)
    ELSE Outcome(NoneId, to_crs(gdf, self.orig_crs), self, to_crs(gdf, self.orig_crs),
                 <<check_canceled, reprojection(self.orig_crs)>>)

DistanceInputs ==
    {[distance |-> d, unit |-> u, keep_input_crs |-> k, in_place |-> p,
      gdf |-> Frame(c, z)] :
        d \in 1..MaxCost, u \in UnitNames, k \in BOOLEAN, p \in BOOLEAN,
        c \in GeographicCRS \cup ProjectedCRS, z \in {"utm31", "utm32"}}

\* lines 153-158: the object after __init__; the caller holds its frame
InitDistance ==
    /\ node = "Distance"
    /\ inp \in DistanceInputs
    /\ pc = "ready"
    /\ built = [distance |-> inp.distance, unit |-> inp.unit,
                keep_input_crs |-> inp.keep_input_crs, orig_crs |-> NoneId]
    /\ prob = [gdf |-> inp.gdf, work |-> inp.gdf, aliased |-> TRUE, canceled |-> FALSE]
    /\ sol = <<>>
    /\ out = <<>>

\* the record of a call in sol
Call(name, o, gdf_before) ==
    [call |-> name, raised |-> o.raised, value |-> o.value, events |-> o.events,
     gdf_before |-> gdf_before, gdf_after |-> o.gdf]

\* the answers the context can give during a call of pre_processing: the user
\* can cancel while it runs, which the code can see only at its second check
ContextsOf(self, caller) ==
    IF caller.canceled THEN {"canceled"}
    ELSE IF self.unit \in {"METER", "KILOMETER", "MILES"} /\ is_projected(caller.gdf.crs)
    THEN {"running", "canceled_late"}
    ELSE {"running"}

PreProcessing ==
    /\ node = "Distance" /\ Len(sol) < MaxCalls
    /\ \E ctx \in ContextsOf(built, prob) :
       LET o == pre_processing(built, ctx, prob.gdf, inp.in_place) IN
         /\ built' = o.self
         /\ prob' = [prob EXCEPT
                       !.canceled = ctx # "running",
                       !.gdf = o.gdf,
                       !.work = IF o.raised = NoneId THEN o.value
                                ELSE IF prob.aliased THEN o.gdf ELSE @,
                       !.aliased = IF o.raised = NoneId
                                   THEN ReturnsArgument(built, prob.gdf, inp.in_place)
                                   ELSE @]
         /\ sol' = Append(sol, Call("pre_processing", o, prob.gdf))
         /\ out' = out \o o.events
    /\ UNCHANGED <<node, pc, inp>>

GetDistance ==
    /\ node = "Distance" /\ Len(sol) < MaxCalls
    /\ LET o == get_distance(built) IN
         /\ built' = o.self
         /\ sol' = Append(sol, Call("get_distance", [o EXCEPT !.gdf = prob.gdf], prob.gdf))
    /\ UNCHANGED <<node, pc, inp, prob, out>>

\* the caller hands back the frame it got from pre_processing
PostProcessing ==
    /\ node = "Distance" /\ Len(sol) < MaxCalls
    /\ LET o == post_processing(built, IF prob.canceled THEN "canceled" ELSE "running",
                                 prob.work) IN
         /\ built' = o.self
         /\ prob' = [prob EXCEPT !.work = o.gdf,
                                 !.gdf = IF prob.aliased THEN o.gdf ELSE @]
         /\ sol' = Append(sol, Call("post_processing", o, prob.work))
         /\ out' = out \o o.events
    /\ UNCHANGED <<node, pc, inp>>

\* the user cancels the execution
Cancel ==
    /\ node = "Distance" /\ ~prob.canceled
    /\ prob' = [prob EXCEPT !.canceled = TRUE]
    /\ out' = Append(out, canceled_signal)
    /\ UNCHANGED <<node, pc, inp, built, sol>>

NextDistance == PreProcessing \/ GetDistance \/ PostProcessing \/ Cancel

SpecDistance == InitDistance /\ [][NextDistance]_vars

(***************************************************************************)
(* Reference quantities of the claims, computed from the input tables by   *)
(* enumeration, without the formulated problem                             *)
(***************************************************************************)
\* the demand and candidate index sets of the input
InDemand == IF node \in ListNodes
            THEN {inp.df[k].DemandID : k \in 1..Len(inp.df)}
            ELSE range(inp.matrix.nrows)

InCand == IF node \in ListNodes
          THEN {inp.df[k].SupplyID : k \in 1..Len(inp.df)}
          ELSE range(Len(inp.matrix.columns))

\* cost[i][j] and weight[i] of the input
InCost(i, j) ==
    IF node \in ListNodes
    THEN inp.df[CHOOSE k \in 1..Len(inp.df) :
                   inp.df[k].DemandID = i /\ inp.df[k].SupplyID = j].ODcost
    ELSE inp.matrix.cells[<<i, j>>]

InWeight(i) ==
    IF node \in ListNodes
    THEN inp.df[CHOOSE k \in 1..Len(inp.df) : inp.df[k].DemandID = i].DemandPopu
    ELSE inp.popu[i]

SetsOfSize(S, k) == {T \in SUBSET S : Cardinality(T) = k}

\* sum over the demand points of weight[i] * min over j in S of cost[i][j]
WeightedCost(S) ==
    lpSum([i \in InDemand |-> InWeight(i) * SetMin({InCost(i, j) : j \in S})])

PInRange == 1 <= inp.Pnumber /\ inp.Pnumber <= Cardinality(InCand)

Solved == pc \in {"solved", "done", "error"} /\ sol.status # "NotSolved"

\* the candidate that x assigns to demand point i
AssignedByX(i) == CHOOSE j \in InCand : sol.x[<<i, j>>] = 1

IsExample ==
    /\ InDemand = {0, 1} /\ InCand = {0, 1}
    /\ \A i \in {0, 1} : \A j \in {0, 1} : InCost(i, j) = ExampleCost[<<i, j>>]
    /\ node # "LSCP" => \A i \in {0, 1} : InWeight(i) = ExampleWeight[i]

(***************************************************************************)
(* C1  P-median optimality (PmedianNode, PmediaSolverNode without a        *)
(* required column): for 1 <= P <= number of candidates the solve is       *)
(* Optimal, its objective is the minimum over the sets S of exactly P      *)
(* candidates of the sum of weight[i] * min_{j in S} cost[i][j], and it is *)
(* the sum of weight[i] * cost[i][assigned[i]] of the assignment read back *)
(* (from x, and from assignSID in the output table); on the worked example *)
(* C0 is the one open facility, the objective is 25 and both demand points *)
(* are assigned to C0.                                                     *)
(***************************************************************************)
C1_PmedianOptimal ==
    (/\ node \in {"Pmedian", "PmedianSolver"}
     /\ node = "PmedianSolver" => inp.RequiredID = NoneId
     /\ PInRange
     /\ Solved)
    => /\ sol.status = "Optimal"
       /\ sol.objective =
            SetMin({WeightedCost(S) : S \in SetsOfSize(InCand, inp.Pnumber)})
       /\ \A i \in InDemand : Cardinality({j \in InCand : sol.x[<<i, j>>] = 1}) = 1
       /\ sol.objective =
            lpSum([i \in InDemand |-> InWeight(i) * InCost(i, AssignedByX(i))])
       /\ pc # "error"
       /\ (node = "Pmedian" /\ pc = "done") =>
            sol.objective =
              lpSum([i \in InDemand |-> InWeight(i) * InCost(i, out[i].assignSID)])
       /\ (IsExample /\ inp.Pnumber = 1) =>
            /\ sol.objective = 25
            /\ sol.y[0] = 1 /\ sol.y[1] = 0
            /\ \A i \in InDemand : AssignedByX(i) = 0
            /\ (node = "Pmedian" /\ pc = "done") =>
                 \A i \in InDemand : out[i].assignSID = 0

\* the worked example has been solved and extracted by PmedianNode
C1_Witness ==
    /\ node = "Pmedian" /\ pc = "done" /\ IsExample /\ inp.Pnumber = 1
    /\ sol.objective = 25

(***************************************************************************)
(* C2  P-median feasibility structure (PmedianNode): in every solution     *)
(* with status Optimal each demand point i has exactly one candidate j     *)
(* with x[i,j] = 1, that j is open (y[j] = 1), the assignSID reported for  *)
(* i is that j, and at most P distinct facilities receive a demand point.  *)
(***************************************************************************)
C2_PmedianStructure ==
    (node = "Pmedian" /\ Solved /\ sol.status = "Optimal")
    => /\ \A i \in InDemand : Cardinality({j \in InCand : sol.x[<<i, j>>] = 1}) = 1
       /\ \A i \in InDemand : sol.y[AssignedByX(i)] = 1
       /\ Cardinality({AssignedByX(i) : i \in InDemand}) <= inp.Pnumber
       /\ pc # "error"
       /\ pc = "done" =>
            /\ DOMAIN out = InDemand
            /\ \A i \in InDemand : out[i].assignSID = AssignedByX(i)
            /\ Cardinality({out[i].assignSID : i \in InDemand}) <= inp.Pnumber

\* two facilities are open and both demand points are assigned to one of them
C2_Witness ==
    /\ node = "Pmedian" /\ pc = "done" /\ sol.status = "Optimal"
    /\ inp.Pnumber = 2
    /\ Cardinality({out[i].assignSID : i \in InDemand}) = 1

(***************************************************************************)
(* Coverage within the threshold, from the input                           *)
(***************************************************************************)
InThreshold == IF node \in ListNodes THEN inp.threshold ELSE inp.Threshold

\* demand point i has a facility of S within the threshold
CoveredBy(i, S) == \E j \in S : InCost(i, j) <= InThreshold

Covers(S) == \A i \in InDemand : CoveredBy(i, S)

\* the facilities the LSCP / MCLP solution opened
OpenX == {j \in InCand : sol.x[j] = 1}

(***************************************************************************)
(* C3  LSCP coverage: when every demand point has a candidate within the   *)
(* threshold, in the solution LSCPNode returns every demand point has an   *)
(* open facility within the threshold and the facility assigned to it is   *)
(* within the threshold.                                                   *)
(***************************************************************************)
C3_LSCPCoverage ==
    (node = "LSCP" /\ Covers(InCand) /\ Solved)
    => /\ sol.status = "Optimal"
       /\ Covers(OpenX)
       /\ pc # "error"
       /\ pc = "done" =>
            \A i \in InDemand : InCost(i, out[i].assignSID) <= InThreshold

(***************************************************************************)
(* C4  LSCP minimality: for a feasible input the number of facilities      *)
(* LSCPNode opens is the size of a smallest set of candidates that covers  *)
(* every demand point; on the worked example with threshold 3 the only     *)
(* facility opened is C0.                                                  *)
(***************************************************************************)
MinCoverSize == SetMin({Cardinality(S) : S \in {T \in SUBSET InCand : Covers(T)}})

C4_LSCPMinimal ==
    (node = "LSCP" /\ Covers(InCand) /\ Solved)
    => /\ sol.status = "Optimal"
       /\ Cardinality(OpenX) = MinCoverSize
       /\ (IsExample /\ inp.threshold = 3) => OpenX = {0}

(***************************************************************************)
(* C5  MCLP optimality: for 1 <= P <= number of candidates MCLPNode opens  *)
(* exactly P facilities and the total weight of the demand points with an  *)
(* open facility within the threshold is the maximum over all sets of      *)
(* exactly P candidates.                                                   *)
(***************************************************************************)
CoveredWeight(S) ==
    lpSum([i \in InDemand |-> IF CoveredBy(i, S) THEN InWeight(i) ELSE 0])

UncoveredWeight(S) ==
    lpSum([i \in InDemand |-> IF CoveredBy(i, S) THEN 0 ELSE InWeight(i)])

C5_MCLPOptimal ==
    (node = "MCLP" /\ PInRange /\ Solved)
    => /\ sol.status = "Optimal"
       /\ Cardinality(OpenX) = inp.Pnumber
       /\ CoveredWeight(OpenX) =
            SetMax({CoveredWeight(S) : S \in SetsOfSize(InCand, inp.Pnumber)})
       /\ pc # "error"

\* two facilities of three are opened; they cover some of the weight, not all
\* of it, and another pair of facilities would cover less
C5_Witness ==
    /\ node = "MCLP" /\ pc = "done" /\ sol.status = "Optimal"
    /\ Cardinality(InCand) = 3 /\ inp.Pnumber = 2
    /\ \E S \in SetsOfSize(InCand, 2) : CoveredWeight(S) < CoveredWeight(OpenX)
    /\ CoveredWeight(OpenX) > 0
    /\ UncoveredWeight(OpenX) > 0

(***************************************************************************)
(* C6  MCLP coverage variables.                                            *)
(* As claimed: y[i] = 1 exactly when demand i (of positive weight) has an  *)
(* open facility within the threshold, and the sum of weight[i] * y[i] is  *)
(* the covered weight.                                                     *)
(***************************************************************************)
C6_YMeansCovered ==
    (node = "MCLP" /\ Solved /\ sol.status = "Optimal")
    => /\ \A i \in InDemand :
            InWeight(i) > 0 => (sol.y[i] = 1 <=> CoveredBy(i, OpenX))
       /\ lpSum([i \in InDemand |-> InWeight(i) * sol.y[i]]) = CoveredWeight(OpenX)

(***************************************************************************)
(* C6 as amended: in the solved MCLP model y[i] = 1 exactly when demand i  *)
(* (of positive weight) has NO open facility within the threshold; the sum *)
(* of weight[i] * y[i] is the total weight of the uncovered demand points, *)
(* and the model minimises this sum itself (no negation): its optimum is   *)
(* the least uncovered weight over the sets of exactly P candidates.       *)
(***************************************************************************)
C6_YMeansUncovered ==
    (node = "MCLP" /\ Solved /\ sol.status = "Optimal")
    => /\ \A i \in InDemand :
            InWeight(i) > 0 => (sol.y[i] = 1 <=> ~CoveredBy(i, OpenX))
       /\ lpSum([i \in InDemand |-> InWeight(i) * sol.y[i]]) = UncoveredWeight(OpenX)
       /\ sol.objective = lpSum([i \in InDemand |-> InWeight(i) * sol.y[i]])
       /\ sol.objective =
            SetMin({UncoveredWeight(S) : S \in SetsOfSize(InCand, inp.Pnumber)})

\* a weighted demand point is covered with y = 0 and another is uncovered with y = 1
C6_Witness ==
    /\ node = "MCLP" /\ pc = "solved" /\ sol.status = "Optimal"
    /\ \E i \in InDemand : InWeight(i) > 0 /\ CoveredBy(i, OpenX) /\ sol.y[i] = 0
    /\ \E i \in InDemand : InWeight(i) > 0 /\ ~CoveredBy(i, OpenX) /\ sol.y[i] = 1

(***************************************************************************)
(* C7  P-center optimality (P-center Solver without a required column):    *)
(* for 1 <= P <= number of candidates the solved Z is the maximum over the *)
(* demand points of cost[i][assigned[i]] in the returned solution, and no  *)
(* set of P open facilities with any assignment of the demand points to    *)
(* them has a smaller maximum cost.                                        *)
(***************************************************************************)
\* the assignments of every demand point to a facility of S
AssignmentsTo(S) == [InDemand -> S]

MaxCostOf(a) == SetMax({InCost(i, a[i]) : i \in InDemand})

C7_PcenterOptimal ==
    (node = "PcenterSolver" /\ inp.RequiredID = NoneId /\ PInRange /\ Solved)
    => /\ sol.status = "Optimal"
       /\ \A i \in InDemand : Cardinality({j \in InCand : sol.x[<<i, j>>] = 1}) = 1
       /\ sol.Z = SetMax({InCost(i, AssignedByX(i)) : i \in InDemand})
       /\ sol.Z = sol.objective
       /\ \A S \in SetsOfSize(InCand, inp.Pnumber) :
            \A a \in AssignmentsTo(S) : sol.Z <= MaxCostOf(a)
       /\ pc # "error"

\* two facilities of three are chosen and another pair would have been worse
C7_Witness ==
    /\ node = "PcenterSolver" /\ inp.RequiredID = NoneId /\ pc = "done"
    /\ Cardinality(InCand) = 3 /\ inp.Pnumber = 2 /\ sol.status = "Optimal"
    /\ \E S \in SetsOfSize(InCand, 2) :
         \A a \in AssignmentsTo(S) : sol.Z < MaxCostOf(a)

(***************************************************************************)
(* C8  Required-facility forcing (P-center Solver, P-median Solver, MCLP   *)
(* Solver): when a required-distance column is supplied and the solve is   *)
(* Optimal, the output has one row for the required column, that row has   *)
(* Chosen = 1, and the number of rows with Chosen = 1 among the other      *)
(* columns is the requested P.                                             *)
(***************************************************************************)
ChosenRows == {j \in DOMAIN out : out[j].Chosen = 1}

RequiredRows == {j \in DOMAIN out : out[j].FacilityID = "Required"}

C8_RequiredForced ==
    (/\ node \in MatrixNodes /\ inp.RequiredID # NoneId
     /\ Solved /\ sol.status = "Optimal")
    => /\ sol.y[built.nrequire] = 1
       /\ pc # "error"
       /\ pc = "done" =>
            /\ Cardinality(RequiredRows) = 1
            /\ RequiredRows \subseteq ChosenRows
            /\ Cardinality(ChosenRows \ RequiredRows) = inp.Pnumber

\* P-median Solver with a required column: one of the two candidates is chosen
C8_Witness ==
    /\ node = "PmedianSolver" /\ inp.RequiredID # NoneId /\ pc = "done"
    /\ sol.status = "Optimal" /\ inp.Pnumber = 1
    /\ Cardinality(DOMAIN out) = 3
    /\ Cardinality(ChosenRows) = 2

(***************************************************************************)
(* C9  No required column: in each matrix-mode solver, when no required    *)
(* column is selected (and 1 <= P <= number of candidates), the execution  *)
(* completes without error, P is not incremented, no candidate is forced   *)
(* open, no column is added to the matrix and exactly P candidates are     *)
(* chosen.                                                                 *)
(***************************************************************************)
C9_NoRequiredColumn ==
    (node \in MatrixNodes /\ inp.RequiredID = NoneId /\ PInRange)
    => /\ pc # "error"
       /\ pc # "start" =>
            /\ built.P = inp.Pnumber
            /\ built.nrequire = None
            /\ built.cost_matrix = inp.matrix
       /\ pc = "done" => Cardinality(ChosenRows) = inp.Pnumber

(***************************************************************************)
(* C10  MCLP Solver agrees with MCLP: with a required column and           *)
(* 1 <= P <= number of candidates, the model is feasible (as MCLP's is,    *)
(* also when a demand point has no facility within the threshold) and the  *)
(* facilities it marks chosen maximise the covered weight among the sets   *)
(* of P candidates plus the required one.                                  *)
(***************************************************************************)
\* coverage over the columns of the matrix the solver used
SolverCovered(i, S) == \E j \in S : built.cost_matrix.cells[<<i, j>>] <= inp.Threshold

SolverCoveredWeight(S) ==
    lpSum([i \in InDemand |-> IF SolverCovered(i, S) THEN inp.popu[i] ELSE 0])

SolverOpen == {j \in range(built.candidate) : sol.y[j] = 1}

C10_MCLPSolverAgrees ==
    (node = "MCLPSolver" /\ inp.RequiredID # NoneId /\ PInRange /\ Solved)
    => /\ sol.status = "Optimal"
       /\ SolverCoveredWeight(SolverOpen) =
            SetMax({SolverCoveredWeight(S) :
                      S \in {T \in SetsOfSize(range(built.candidate), built.P) :
                               built.nrequire \in T}})

(***************************************************************************)
(* C11  Matrix-mode output shape: a matrix-mode solver run that ends       *)
(* Optimal produces an output table with exactly one row per column of the *)
(* cost matrix used in the model (the required column included), in column *)
(* order; FacilityID is the column label, Chosen is 0 or 1, and the rows   *)
(* have no other column (no assignment, no geometry).                      *)
(***************************************************************************)
\* the labels of the columns of the matrix of the model, derived from the input:
\* the required column carries the label "Required" and comes last
ExpectedFacilityIDs ==
    LET NotRequired(c) == c # inp.RequiredID IN
    IF inp.RequiredID = NoneId THEN inp.matrix.columns
    ELSE IF node = "PcenterSolver"
         THEN Append(SelectSeq(inp.matrix.columns, NotRequired), "Required")
         ELSE Append(inp.matrix.columns, "Required")

C11_MatrixOutputShape ==
    (node \in MatrixNodes /\ Solved /\ sol.status = "Optimal")
    => /\ pc # "error"
       /\ pc = "done" =>
            /\ DOMAIN out = range(Len(ExpectedFacilityIDs))
            /\ \A j \in DOMAIN out :
                 /\ DOMAIN out[j] = {"FacilityID", "Chosen"}
                 /\ out[j].FacilityID = ExpectedFacilityIDs[j + 1]
                 /\ out[j].Chosen \in {0, 1}

\* P-center Solver whose required column is the first column of the matrix:
\* the rows of the output are C1, then Required
C11_Witness ==
    /\ node = "PcenterSolver" /\ pc = "done" /\ sol.status = "Optimal"
    /\ inp.RequiredID = "C0"
    /\ out[0].FacilityID = "C1" /\ out[1].FacilityID = "Required"
    /\ out[0].Chosen = 1 /\ out[1].Chosen = 1

(***************************************************************************)
(* C12  Missing pair in list mode: in PmedianNode, LSCPNode and MCLPNode,  *)
(* when for some demand index i in 0..n-1 and candidate index j in 0..m-1  *)
(* (n, m the numbers of distinct demand and supply ids) the OD list has no *)
(* row with demand id i and supply id j, the execution fails before the    *)
(* solver is invoked and produces no output table.                         *)
(***************************************************************************)
MissingPair ==
    \E i \in range(Cardinality(InDemand)) : \E j \in range(Cardinality(InCand)) :
        ~ \E k \in 1..Len(inp.df) : inp.df[k].DemandID = i /\ inp.df[k].SupplyID = j

C12_MissingPairFails ==
    (node \in ListNodes /\ MissingPair)
    => /\ pc \in {"start", "built", "error"}
       /\ sol = NotSolved
       /\ out = <<>>

\* the row of the pair (1, 1) is missing from a list that has the other three
C12_Witness ==
    /\ node \in ListNodes /\ pc = "error" /\ sol = NotSolved
    /\ Len(inp.df) = 3
    /\ MissingPair
    /\ ~ \E k \in 1..3 : inp.df[k].DemandID = 1 /\ inp.df[k].SupplyID = 1

(***************************************************************************)
(* C13  Row-count mismatch in matrix mode: in P-median Solver and MCLP     *)
(* Solver, when the demand table and the matrix table do not have the same *)
(* number of rows (demand table shorter or longer), the execution fails    *)
(* before the solver is invoked, with or without a required column.        *)
(***************************************************************************)
DemandTableRows == Cardinality(DOMAIN inp.popu)

C13_RowMismatchFails ==
    (node \in {"PmedianSolver", "MCLPSolver"} /\ DemandTableRows # inp.matrix.nrows)
    => /\ pc \in {"start", "built", "error"}
       /\ sol = NotSolved
       /\ out = <<>>

(***************************************************************************)
(* C14  Invalid P: in every variant that takes a facility count (P-median, *)
(* MCLP, P-center Solver, P-median Solver, MCLP Solver) a count P <= 0     *)
(* makes the execution fail before any model variable, objective or        *)
(* constraint is constructed and before the solver is invoked.             *)
(***************************************************************************)
C14_InvalidPFails ==
    (node \in PNodes /\ inp.Pnumber <= 0)
    => /\ pc \in {"start", "built", "error"}
       /\ prob = <<>>
       /\ sol = NotSolved

(***************************************************************************)
(* C15  Non-optimal status is not a thrown failure: when the solver ends   *)
(* with a status other than Optimal (P greater than the number of          *)
(* candidates, an LSCP constraint no candidate satisfies), the solve step  *)
(* raises no error, the status is kept as a value, and result extraction   *)
(* is still attempted on the solution.                                     *)
(***************************************************************************)
NonOptimal == sol.status \notin {"Optimal", "NotSolved"}

Extraction ==
    \/ PmedianExtract \/ LSCPExtract \/ MCLPExtract
    \/ PcenterSolverExtract \/ PmediaSolverExtract \/ MCLPSolverExtract

C15_NonOptimalPassedOn ==
    /\ [](pc = "solved" /\ NonOptimal => ENABLED Extraction)
    /\ [][/\ pc = "formulated" =>
               pc' = "solved" /\ sol'.status \in {"Optimal", "Infeasible"}
          /\ pc = "solved" /\ NonOptimal =>
               pc' \in {"done", "error"} /\ sol' = sol]_vars

\* P-center Solver asked for three facilities of two candidates: the solve is
\* Infeasible and the extraction has run on what the solver left behind
C15_Witness ==
    /\ node = "PcenterSolver" /\ inp.RequiredID = NoneId /\ inp.Pnumber = 3
    /\ sol.status = "Infeasible"
    /\ pc \in {"done", "error"}

(***************************************************************************)
(* C16  Phase order and single solve: every node execution goes through    *)
(* cost-matrix building, model formulation, solver invocation and result   *)
(* extraction in that order; the solver is invoked exactly once whatever   *)
(* status it returns, extraction never starts before the solve has         *)
(* returned, and an execution that fails in building or formulation never  *)
(* invokes the solver.                                                     *)
(***************************************************************************)
PhaseSteps ==
    {<<"start", "built">>, <<"built", "formulated">>, <<"built", "error">>,
     <<"formulated", "solved">>, <<"solved", "done">>, <<"solved", "error">>}

C16_PhaseOrder ==
    [][/\ <<pc, pc'>> \in PhaseSteps
       /\ built' # built => pc = "start"
       /\ prob' # prob => pc = "built"
       /\ sol' # sol <=> pc = "formulated"
       /\ out' # out => pc = "solved"
       /\ node' = node /\ inp' = inp]_vars

\* an execution that went through the four phases, with a solve that was
\* Infeasible and was not repeated
C16_Witness ==
    /\ pc = "done" /\ sol.status = "Infeasible"
    /\ built # <<>> /\ prob # <<>> /\ out # <<>>

(***************************************************************************)
(* C17  Fetch failures degrade to zero: in the Google Distance Matrix node *)
(* and the OSRM Matrix node, for every pair (or OSRM batch) whose request  *)
(* fails or whose response lacks an expected field, the run does not       *)
(* abort, both the duration and the distance reported for the pair are 0   *)
(* (nothing of the failed response is kept), and the values of the other   *)
(* pairs are what their own responses give.                                *)
(***************************************************************************)
\* the response that decides row k of the output
ResponseOf(k) ==
    IF node = "GoogleDistanceMatrix" THEN inp.responses[k]
    ELSE inp.responses[(k \div slnum) + 1]

\* the request failed, or a field the node reads from the response is missing
FetchFailed(r) ==
    IF node = "GoogleDistanceMatrix"
    THEN ~r.ok \/ r.duration = None \/ r.distance = None
    ELSE \/ ~r.ok \/ r.code # "Ok"
         \/ inp.osrmmodel # "Route" /\ r.legs = NoLegs
         \/ inp.osrmmodel # "Travel Cost" /\ ~r.route

ReportsCost == node = "GoogleDistanceMatrix" \/ inp.osrmmodel # "Route"

C17_FetchFailureGivesZero ==
    (node \in {"GoogleDistanceMatrix", "OSRMDriveMatrix"} /\ ReportsCost)
    => /\ pc \in {"start", "fetching", "done"}
       /\ pc = "done" =>
            \A k \in DOMAIN out :
                IF FetchFailed(ResponseOf(k))
                THEN out[k].duration = 0 /\ out[k].distance = 0
                ELSE LET v == IF node = "GoogleDistanceMatrix"
                              THEN ResponseOf(k) ELSE ResponseOf(k).legs
                     IN /\ out[k].duration = v.duration \div 60
                        /\ out[k].distance = v.distance

(***************************************************************************)
(* C18  Unrecognized distance unit: for every unit value that is not one   *)
(* of INPUT, METER, KILOMETER, MILES, DEGREE, both Distance.get_distance   *)
(* and Distance.pre_processing raise an error, and pre_processing raises   *)
(* it without having re-projected or otherwise modified the input frame.   *)
(***************************************************************************)
C18_UnknownUnitRaises ==
    (node = "Distance" /\ inp.unit \notin {"INPUT", "METER", "KILOMETER", "MILES", "DEGREE"})
    => \A k \in 1..Len(sol) :
           /\ sol[k].call = "get_distance" => sol[k].raised = "ValueError"
           /\ sol[k].call = "pre_processing" =>
                /\ sol[k].raised = "ValueError"
                /\ sol[k].events = <<>>
                /\ sol[k].gdf_after = sol[k].gdf_before
                /\ sol[k].gdf_after = inp.gdf

\* both methods were called on an object whose unit is FEET, the frame being
\* in a projected CRS
C18_Witness ==
    /\ node = "Distance" /\ inp.unit = "FEET" /\ is_projected(inp.gdf.crs)
    /\ \E k \in 1..Len(sol) : sol[k].call = "get_distance" /\ sol[k].raised = "ValueError"
    /\ \E k \in 1..Len(sol) : sol[k].call = "pre_processing" /\ sol[k].raised = "ValueError"

(***************************************************************************)
(* C19  Inclusive threshold: in LSCP and MCLP the within flag of a         *)
(* (demand, candidate) row is 1 exactly when its cost <= threshold and 0   *)
(* otherwise; a pair whose cost equals the threshold counts as covered,    *)
(* and every row of the OD list gets a flag.                               *)
(***************************************************************************)
ThresholdNodes == {"LSCP", "MCLP"}

Flag(cost) == IF cost <= inp.threshold THEN 1 ELSE 0

\* the rows of the input list, and the rows of df without the flag
InRows == {inp.df[k] : k \in 1..Len(inp.df)}

Unflagged(r) ==
    [DemandID |-> r.DemandID, SupplyID |-> r.SupplyID,
     DemandPopu |-> r.DemandPopu, ODcost |-> r.ODcost]

\* C19: once the tables are built every input row is a row of df that carries
\* the flag of its own cost, and the formulation reads that flag for every
\* (demand, candidate) pair
C19_InclusiveThreshold ==
    (node \in ThresholdNodes /\ pc # "start")
    => /\ Len(built.df) = Len(inp.df)
       /\ {Unflagged(built.df[k]) : k \in 1..Len(built.df)} = InRows
       /\ \A k \in 1..Len(built.df) : built.df[k].within = Flag(built.df[k].ODcost)
       /\ pc \in {"formulated", "solved", "done"}
          => \A i \in InDemand : \A j \in InCand :
                prob.within[<<i, j>>] = Flag(InCost(i, j))

\* a reversed list with a pair at the threshold (flag 1) and a pair above it
\* (flag 0), both read by the formulation
C19_Witness ==
    /\ node \in ThresholdNodes /\ pc = "done"
    /\ inp.df[1].DemandID = 1 /\ inp.df[1].SupplyID = 1
    /\ \E i \in InDemand : \E j \in InCand :
          InCost(i, j) = inp.threshold /\ prob.within[<<i, j>>] = 1
    /\ \E k \in 1..Len(built.df) :
          built.df[k].ODcost = inp.threshold + 1 /\ built.df[k].within = 0

(***************************************************************************)
(* C20  Nearest-open assignment with tie-break: in LSCP and MCLP every     *)
(* demand point is assigned an open facility of minimal cost among the     *)
(* open facilities, and among several open facilities of the same minimal  *)
(* cost the one with the lowest candidate index, whatever the order of the *)
(* input rows.                                                             *)
(***************************************************************************)
\* the facilities the solve left with the value 1
OpenFacilities == {j \in InCand : j \in DOMAIN sol.x /\ sol.x[j] = 1}

\* a is the nearest open facility of demand point i, the lowest index on a tie
NearestOpen(i, a) ==
    /\ a \in OpenFacilities
    /\ \A j \in OpenFacilities :
          \/ InCost(i, a) < InCost(i, j)
          \/ (InCost(i, a) = InCost(i, j) /\ a <= j)

\* C20: the output has one row per demand point and its assignSID is the
\* nearest open facility, the lowest candidate index on a tie
C20_NearestOpenAssigned ==
    (node \in ThresholdNodes /\ pc = "done")
    => /\ {out[p].DemandID : p \in DOMAIN out} = InDemand
       /\ \A p \in DOMAIN out : NearestOpen(out[p].DemandID, out[p].assignSID)

\* an unsorted list, both facilities open: demand point 0 is at the same cost
\* from both and gets facility 0, demand point 1 is nearer to facility 1
C20_Witness ==
    /\ node \in ThresholdNodes /\ pc = "done"
    /\ inp.df # sort_values(inp.df)
    /\ OpenFacilities = {0, 1}
    /\ InCost(0, 0) = InCost(0, 1) /\ out[0].assignSID = 0
    /\ InCost(1, 1) < InCost(1, 0) /\ out[1].assignSID = 1

(***************************************************************************)
(* C21  Row-order independence in list mode: for an OD list with no        *)
(* duplicate (demand_id, supply_id) pair, any permutation of the input     *)
(* rows yields the same demand list, candidate list, cost matrix, weights  *)
(* and formulated model in PmedianNode, LSCPNode and MCLPNode.             *)
(***************************************************************************)
\* the tables and the model the node derives from the list df
TablesFrom(df) ==
    IF node = "Pmedian" THEN ListTables(df) ELSE ThresholdTables(df, inp.threshold)

ModelFrom(df) ==
    LET b == TablesFrom(df)
    IN CASE node = "Pmedian" -> PmedianProblem(b, inp.Pnumber)
         [] node = "LSCP" -> LSCPProblem(b)
         [] node = "MCLP" -> MCLPProblem(b, inp.Pnumber)

NoDuplicatePair ==
    \A k \in 1..Len(inp.df) : \A l \in 1..Len(inp.df) :
        (inp.df[k].DemandID = inp.df[l].DemandID
         /\ inp.df[k].SupplyID = inp.df[l].SupplyID) => k = l

\* C21: the tables and the model formulated from the input are those of every
\* other order of its rows
C21_RowOrderIndependent ==
    (node \in ListNodes /\ pc = "formulated" /\ NoDuplicatePair)
    => \A df \in Orders(inp.df) :
          /\ TablesFrom(df).DemandPt = built.DemandPt
          /\ TablesFrom(df).SupplyPt = built.SupplyPt
          /\ TablesFrom(df).df = built.df
          /\ ModelFrom(df) = prob

\* the rows arrive unsorted and the two rows of demand point 0 disagree on its
\* weight, so the order of the rows is what decides the weight
C21_Witness ==
    /\ node \in ListNodes /\ pc = "formulated" /\ NoDuplicatePair
    /\ inp.df # sort_values(inp.df)
    /\ \E k \in 1..Len(inp.df) : \E l \in 1..Len(inp.df) :
          /\ inp.df[k].DemandID = 0 /\ inp.df[l].DemandID = 0
          /\ inp.df[k].SupplyID = 1 /\ inp.df[l].SupplyID = 0 /\ k < l
          /\ inp.df[k].DemandPopu # inp.df[l].DemandPopu
          /\ inp.df[l].DemandPopu # None
          /\ built.DemandPt[0].DemandPopu = inp.df[l].DemandPopu

(***************************************************************************)
(* C23  First row is canonical for a point: in list mode the weight of     *)
(* demand point d is exactly that of the first row with demand_id = d in   *)
(* the sorted table, including when that first row's weight is missing and *)
(* a later row of the same id has a value; the demand list has one entry   *)
(* per distinct demand_id and the candidate list one per distinct          *)
(* supply_id.                                                              *)
(***************************************************************************)
\* the first row of the sorted frame with demand id d
FirstRowOf(d) == built.df[SetMin({k \in 1..Len(built.df) : built.df[k].DemandID = d})]

OneEntryPerId ==
    /\ built.num_trt = Cardinality(InDemand)
    /\ built.num_hosp = Cardinality(InCand)
    /\ {built.DemandPt[p].DemandID : p \in DOMAIN built.DemandPt} = InDemand
    /\ {built.SupplyPt[p].SupplyID : p \in DOMAIN built.SupplyPt} = InCand

\* C23: every entry of the demand list carries the weight of the first row of
\* its demand id in the sorted frame, missing or not
C23_FirstRowCanonical ==
    (node \in ListNodes /\ pc # "start")
    => /\ OneEntryPerId
       /\ \A p \in DOMAIN built.DemandPt :
             built.DemandPt[p].DemandPopu = FirstRowOf(built.DemandPt[p].DemandID).DemandPopu

(***************************************************************************)
(* C22  Duplicate pairs, first match wins: when the OD list has several    *)
(* rows with the same (demand_id, supply_id), the cost (and within flag)   *)
(* used for cell [i][j] in the model is that of the first such row in the  *)
(* table sorted by (demand_id, supply_id); the other duplicate rows change *)
(* neither the objective nor any constraint, and no error is raised.       *)
(***************************************************************************)
DuplicatePair == ~ NoDuplicatePair

\* the first row of the pair (i, j) in the sorted frame
FirstOfPair(i, j) ==
    built.df[SetMin({k \in 1..Len(built.df) :
                        built.df[k].DemandID = i /\ built.df[k].SupplyID = j})]

\* the sorted frame without the rows that are not the first of their pair
RECURSIVE KeepFirsts(_)
KeepFirsts(df) ==
    IF df = <<>> THEN <<>>
    ELSE LET init == SubSeq(df, 1, Len(df) - 1)
             r == df[Len(df)]
         IN IF \E k \in 1..Len(init) :
                  init[k].DemandID = r.DemandID /\ init[k].SupplyID = r.SupplyID
            THEN KeepFirsts(init)
            ELSE Append(KeepFirsts(init), r)

\* the coefficient the formulated model holds for the cell (i, j)
CellOfModel(i, j) ==
    IF node = "Pmedian" THEN prob.coef[<<i, j>>] ELSE prob.within[<<i, j>>]

CellOfRow(r) ==
    IF node = "Pmedian" THEN built.DemandPt[r.DemandID].DemandPopu * r.ODcost
    ELSE Flag(r.ODcost)

\* C22: with a duplicated pair the formulation does not fail, every cell of the
\* model comes from the first row of its pair in the sorted frame, and the model
\* is the one of the list without the later duplicates
C22_FirstMatchWins ==
    (node \in ListNodes /\ DuplicatePair /\ pc \notin {"start", "built"})
    => /\ prob # <<>>
       /\ \A i \in InDemand : \A j \in InCand :
             CellOfModel(i, j) = CellOfRow(FirstOfPair(i, j))
       /\ prob = ModelFrom(KeepFirsts(built.df))

\* the pair (0, 1) is held twice at different costs, the dearer row first; the
\* P-median objective carries the cost of that first row
C22_Witness ==
    /\ node = "Pmedian" /\ pc = "formulated"
    /\ \E k \in 1..Len(inp.df) : \E l \in 1..Len(inp.df) :
          /\ k < l
          /\ inp.df[k].DemandID = 0 /\ inp.df[k].SupplyID = 1
          /\ inp.df[l].DemandID = 0 /\ inp.df[l].SupplyID = 1
          /\ inp.df[k].ODcost > inp.df[l].ODcost
          /\ prob.coef[<<0, 1>>] = inp.df[k].ODcost

(***************************************************************************)
(* C24  Required column is always last: in P-center Solver, for any        *)
(* position of the selected required column among the columns of the input *)
(* matrix, after matrix construction that column is the last column, the   *)
(* other columns keep their relative order and the column count is         *)
(* unchanged, and nrequire is the index of that column; in P-median Solver *)
(* and MCLP Solver the required column taken from the demand table is      *)
(* appended after all matrix columns and nrequire is its index.            *)
(***************************************************************************)
\* column j (0-based) of a table
ColumnOf(t, j) == [i \in range(t.nrows) |-> t.cells[<<i, j>>]]

\* the columns of the input matrix that are not the required one, in their order
OtherColumns ==
    LET NotRequired(c) == c # inp.RequiredID IN SelectSeq(inp.matrix.columns, NotRequired)

\* C24: once the tables are built the required column is the last one, with
\* its own cells, after the other columns in their input order with theirs
C24_RequiredColumnLast ==
    (node \in MatrixNodes /\ inp.RequiredID # NoneId /\ pc # "start")
    => LET cm == built.cost_matrix
           m == Len(cm.columns)
       IN /\ cm.columns[m] = "Required"
          /\ built.nrequire = m - 1
          /\ built.candidate = m
          /\ IF node = "PcenterSolver"
             THEN /\ m = Len(inp.matrix.columns)
                  /\ SubSeq(cm.columns, 1, m - 1) = OtherColumns
                  /\ ColumnOf(cm, m - 1) =
                        ColumnOf(inp.matrix, ColPos(inp.matrix, inp.RequiredID))
                  /\ \A j \in range(m - 1) :
                        ColumnOf(cm, j) = ColumnOf(inp.matrix, ColPos(inp.matrix, cm.columns[j + 1]))
             ELSE /\ m = Len(inp.matrix.columns) + 1
                  /\ SubSeq(cm.columns, 1, m - 1) = inp.matrix.columns
                  /\ ColumnOf(cm, m - 1) = inp.required
                  /\ \A j \in range(m - 1) : ColumnOf(cm, j) = ColumnOf(inp.matrix, j)

\* the required column is the first of three whose costs all differ: it ends
\* last, behind C1 and C2 in that order
C24_Witness ==
    /\ node = "PcenterSolver" /\ pc = "done" /\ inp.RequiredID = "C0"
    /\ built.cost_matrix.columns = <<"C1", "C2", "Required">>
    /\ ColumnOf(inp.matrix, 0) # ColumnOf(inp.matrix, 1)
    /\ ColumnOf(inp.matrix, 1) # ColumnOf(inp.matrix, 2)
    /\ ColumnOf(inp.matrix, 0) # ColumnOf(inp.matrix, 2)
    /\ built.nrequire = 2

(***************************************************************************)
(* C25  Cancellation checks guard re-projection only: in                   *)
(* Distance.pre_processing and Distance.post_processing every CRS          *)
(* re-projection of the frame is preceded, in the same call and with no    *)
(* other re-projection in between, by a cancellation check of the          *)
(* execution context, so once cancellation is signalled no further         *)
(* re-projection is performed.                                             *)
(***************************************************************************)
\* in the log ev every re-projection comes right after a cancellation check
CheckedReprojections(ev) ==
    \A k \in 1..Len(ev) :
        ev[k].ev = "to_crs" => (k > 1 /\ ev[k - 1].ev = "check_canceled")

\* in the log ev no re-projection follows a cancellation signal
NoneAfterCancel(ev) ==
    \A k \in 1..Len(ev) : \A l \in 1..Len(ev) :
        (k < l /\ ev[k].ev = "cancel") => ev[l].ev # "to_crs"

PreThenPost(k, l) ==
    /\ k < l
    /\ sol[k].call = "pre_processing" /\ sol[k].raised = NoneId
    /\ sol[l].call = "post_processing" /\ sol[l].raised = NoneId
    /\ \A c \in (k + 1)..(l - 1) : sol[c].call # "pre_processing"

\* C26: the three cases of the round trip, for the calls that returned
C26_CRSRoundTrip ==
    (node = "Distance" /\ inp.unit \in Units)
    => /\ \A k \in 1..Len(sol) : \A l \in 1..Len(sol) :
             (PreThenPost(k, l) /\ inp.keep_input_crs)
             => sol[l].value.crs = sol[k].gdf_before.crs
       /\ \A l \in 1..Len(sol) :
             (sol[l].call = "post_processing" /\ ~inp.keep_input_crs)
             => /\ sol[l].raised = NoneId
                /\ sol[l].value = sol[l].gdf_before
                /\ sol[l].events = <<>>
       /\ \A k \in 1..Len(sol) :
             (/\ sol[k].call = "pre_processing"
              /\ \/ inp.unit = "INPUT"
                 \/ inp.unit = "DEGREE" /\ ~is_projected(sol[k].gdf_before.crs))
             => /\ sol[k].raised = NoneId
                /\ sol[k].value = sol[k].gdf_before
                /\ sol[k].events = <<>>

\* a frame in a projected CRS other than the default went to its UTM zone for
\* a distance in miles and came back in the CRS it had
C26_Witness ==
    /\ node = "Distance" /\ inp.unit = "MILES" /\ inp.keep_input_crs
    /\ Len(sol) = 2 /\ PreThenPost(1, 2)
    /\ inp.gdf.crs = "epsg:3857"
    /\ sol[1].value.crs = inp.gdf.utm
    /\ sol[2].value.crs = "epsg:3857"

(***************************************************************************)
(* C27  Distance unit conversion: Distance.get_distance returns the stored *)
(* distance unchanged for units INPUT, DEGREE and METER, the stored        *)
(* distance times 1000 for KILOMETER and times 1609.34 for MILES, and it   *)
(* never changes the stored distance, unit or CRS of the Distance object.  *)
(***************************************************************************)
\* the distance in metres, in hundredths, that the unit of the input stands for
ExpectedDistance ==
    CASE inp.unit \in {"INPUT", "DEGREE", "METER"} -> inp.distance * 100
      [] inp.unit = "KILOMETER" -> inp.distance * 1000 * 100
      [] inp.unit = "MILES" -> (inp.distance * 160934)

GetDistanceReturned ==
    /\ Len(sol') = Len(sol) + 1
    /\ sol'[Len(sol')].call = "get_distance"

\* C27: every get_distance of a supported unit returns the converted distance,
\* and the step that makes the call leaves the object as it was
C27_UnitConversion ==
    /\ [](node = "Distance" /\ inp.unit \in Units
          => /\ built.distance = inp.distance /\ built.unit = inp.unit
             /\ \A k \in 1..Len(sol) :
                   sol[k].call = "get_distance"
                   => /\ sol[k].raised = NoneId
                      /\ sol[k].value = ExpectedDistance
                      /\ sol[k].gdf_after = sol[k].gdf_before)
    /\ [][(node = "Distance" /\ GetDistanceReturned) => built' = built]_vars

\* a distance of 2 miles was asked for after pre_processing had stored a CRS
C27_Witness ==
    /\ node = "Distance" /\ inp.unit = "MILES" /\ inp.distance = 2
    /\ Len(sol) = 2
    /\ sol[1].call = "pre_processing" /\ built.orig_crs = inp.gdf.crs
    /\ sol[2].call = "get_distance" /\ sol[2].value = 321868

(***************************************************************************)
(* C28  OSRM batching partitions the rows: for every number n >= 0 of      *)
(* origin-destination rows, the ranges [ns, ne] passed to updatePart are   *)
(* issued in increasing order, each contains between 1 and 50 consecutive  *)
(* row indices, they are pairwise disjoint and their union is exactly the  *)
(* rows 0..n-1; for n = 0 no request is made.                              *)
(***************************************************************************)
RowsOf(call) == call[1]..call[2]

Requested == UNION {RowsOf(built.calls[b]) : b \in 1..Len(built.calls)}

\* C28: the ranges requested so far are non-empty, at most 50 rows long, within
\* the frame, each above the one before, and once the node returns they cover
\* the frame
C28_BatchesPartitionRows ==
    (node = "OSRMDriveMatrix" /\ pc \in {"fetching", "done"})
    => LET n == inp.nO * inp.nD
           calls == built.calls
       IN /\ \A b \in 1..Len(calls) :
                /\ Cardinality(RowsOf(calls[b])) \in 1..50
                /\ RowsOf(calls[b]) \subseteq range(n)
          /\ \A a \in 1..Len(calls) : \A b \in 1..Len(calls) :
                a < b => calls[a][2] < calls[b][1]
          /\ pc = "done" => Requested = range(n)
          /\ n = 0 => calls = <<>>

\* 153 rows: three full requests and one of three rows
C28_Witness ==
    /\ node = "OSRMDriveMatrix" /\ pc = "done"
    /\ inp.nO * inp.nD = 153
    /\ built.calls = <<<<0, 49>>, <<50, 99>>, <<100, 149>>, <<150, 152>>>>

(***************************************************************************)
(* C29  Ids must be dense from 0: in PmedianNode, LSCPNode and MCLPNode,   *)
(* if the set of distinct demand ids is not exactly {0..n-1} or the set of *)
(* distinct supply ids is not exactly {0..m-1} (ids starting at 1, gaps,   *)
(* negative ids), the execution fails with an error before the solver is   *)
(* invoked; it never produces an output in which a demand point is matched *)
(* with the cost or weight of a different id.                              *)
(***************************************************************************)
DenseIds ==
    /\ InDemand = range(Cardinality(InDemand))
    /\ InCand = range(Cardinality(InCand))

\* C29: with ids that are not dense from 0 the run stops before the solve and
\* returns nothing; an output, when there is one, has the ids of the input
C29_SparseIdsFail ==
    node \in ListNodes
    => /\ ~DenseIds => /\ pc \in {"start", "built", "error"}
                       /\ sol = NotSolved
                       /\ out = <<>>
       /\ pc = "done" => /\ DenseIds
                         /\ \A p \in DOMAIN out :
                               /\ out[p].DemandID = p
                               /\ out[p].assignSID \in InCand

\* the demand ids are 1 and 2, the supply ids 0 and 1: the formulation failed
C29_Witness ==
    /\ node \in ListNodes /\ pc = "error" /\ sol = NotSolved /\ prob = <<>>
    /\ InDemand = {1, 2} /\ InCand = {0, 1}
    /\ built.num_trt = 2 /\ built.num_hosp = 2

(***************************************************************************)
(* C30  Every demand point gets an open facility in list-mode LSCP/MCLP:   *)
(* after an Optimal solve with at least one open facility, every demand    *)
(* point in the output of LSCPNode and MCLPNode has a non-empty assignSID, *)
(* that facility is one of the facilities the solution opened, and in MCLP *)
(* this holds also for demand points that no open facility covers within   *)
(* the threshold (they are assigned to their nearest open facility beyond  *)
(* the threshold).                                                         *)
(***************************************************************************)
\* no open facility is within the threshold of demand point i
Uncovered(i) == \A j \in OpenFacilities : InCost(i, j) > inp.threshold

\* C30: after an Optimal solve that opened a facility the extraction does not
\* fail, and its output gives every demand point one of the open facilities
C30_EveryDemandAssigned ==
    (/\ node \in ThresholdNodes /\ pc \in {"solved", "done", "error"}
     /\ sol.status = "Optimal" /\ OpenFacilities # {})
    => /\ pc # "error"
       /\ pc = "done" =>
            /\ {out[p].DemandID : p \in DOMAIN out} = InDemand
            /\ \A p \in DOMAIN out :
                  /\ out[p].assignSID # None
                  /\ out[p].assignSID \in OpenFacilities

\* MCLP opened one facility; demand point 1 is beyond its threshold and is
\* assigned to it all the same
C30_Witness ==
    /\ node = "MCLP" /\ pc = "done" /\ sol.status = "Optimal"
    /\ InDemand = {0, 1}
    /\ Cardinality(OpenFacilities) = 1
    /\ Uncovered(1) /\ ~Uncovered(0)
    /\ out[1].assignSID \in OpenFacilities

====
